---- MODULE Spec2Model ----
(***************************************************************************)
(* local-orbit relay (src/unnamed/part_005, the current revision of        *)
(* services/local-orbit/src/index.ts): connection registry, message        *)
(* router, event log and replay query, bearer-token guard, pairing codes,  *)
(* token rotation, upload tokens, the anchor supervisor and restart.       *)
(*                                                                         *)
(* One handler of the source is one action.  A handler that awaits is split*)
(* at the await: the part before and the part after are separate actions.  *)
(* The transport's callbacks (fetch, websocket.open, websocket.message,    *)
(* websocket.close) are separate events: the source does not tie open to   *)
(* the upgrade call nor the close callback to the ws.close() call.         *)
(***************************************************************************)
EXTENDS Integers, Sequences, FiniteSets, TLC

(***************************************************************************)
(* Bounds of the model                                                     *)
(***************************************************************************)
NClients == 1
NAnchors == 2
MaxEvents == 1
MaxInflight == 1
MaxRotations == 1
MaxMints == 1
MaxNow == 2
TickSec == 200
NReq == 2
MaxRows == 1
StoredExtra == 3

Clients == 1..NClients
Anchors == (NClients + 1)..(NClients + NAnchors)
Sock == Clients \cup Anchors

(***************************************************************************)
(* JavaScript values, as far as the relay inspects them                    *)
(***************************************************************************)
Undef == [t |-> "undefined"]
Str(s) == [t |-> "string", s |-> s]
Num(n) == [t |-> "number", n |-> n]
Other == [t |-> "other"]

\* s.trim() for the strings of the model: the blank ones trim to "".
trim(s) == IF s \in {"", " "} THEN "" ELSE s

\* String(n) for the numbers of the model.
String(n) == CASE n = 0 -> "0" [] n = 7 -> "7" [] OTHER -> "NaN"

Null == [t |-> "null"]

\* a ?? b
Coalesce(a, b) == IF a \in {Undef, Null} THEN b ELSE a

\* o?.f for an optional object o: a record tagged "object", or Undef
Get(o, f) == IF o.t = "object" THEN o[f] ELSE Undef

\* typeof c === "string" && c.trim(), or typeof c === "number"
IsId(c) == \/ c.t = "string" /\ trim(c.s) # ""
           \/ c.t = "number"

\* the value the extractors return for a qualifying candidate c
IdOf(c) == IF c.t = "number" THEN String(c.n) ELSE c.s

\* for (const c of candidates) { ... return ... } return null
RECURSIVE FirstId(_)
FirstId(cands) ==
  IF cands = <<>> THEN Null
  ELSE IF IsId(Head(cands)) THEN Str(IdOf(Head(cands)))
  ELSE FirstId(Tail(cands))

(***************************************************************************)
(* Envelopes.  A message text is an index into the table Envelopes; the    *)
(* entry is what JSON.parse makes of the text.                             *)
(***************************************************************************)
NoThread == [t |-> "object", id |-> Undef]
NoItem == [t |-> "object", threadId |-> Undef, thread_id |-> Undef]
NoTurn == [t |-> "object", threadId |-> Undef, thread_id |-> Undef, thread |-> Undef,
           id |-> Undef, turnId |-> Undef, turn_id |-> Undef]
NoBody == [t |-> "object", threadId |-> Undef, thread_id |-> Undef, turn |-> Undef,
           item |-> Undef, thread |-> Undef, turnId |-> Undef, turn_id |-> Undef]
Env0 == [json |-> "object", type |-> Undef, method |-> Undef, replay |-> FALSE,
         threadId |-> Undef, thread_id |-> Undef, params |-> Undef, result |-> Undef,
         hostname |-> Undef, platform |-> Undef]
NotJson == [Env0 EXCEPT !.json = "text"]
JsonArray == [Env0 EXCEPT !.json = "array"]

\* Envelopes over six of the fields extractThreadId looks at, each absent,
\* blank or holding an id of its own: digit j of i - 1 in base 3 picks the
\* value of field j.
ExtCount == 3 * 243
ExtDigit(i, j) ==
  ((i - 1) \div (CASE j = 1 -> 1 [] j = 2 -> 3 [] j = 3 -> 9 [] j = 4 -> 27
                   [] j = 5 -> 81 [] OTHER -> 243)) % 3
ExtVal(i, j, id) ==
  CASE ExtDigit(i, j) = 0 -> Undef [] ExtDigit(i, j) = 1 -> Str(" ") [] OTHER -> id
ExtEnvelope(i) ==
  [Env0 EXCEPT
     !.method = Str("turn/start"),
     !.thread_id = ExtVal(i, 1, Num(7)),
     !.params = [NoBody EXCEPT
                   !.thread_id = ExtVal(i, 2, Str("p")),
                   !.turn = [NoTurn EXCEPT !.threadId = ExtVal(i, 3, Str("pt")),
                                           !.thread_id = ExtVal(i, 4, Str("pt_"))],
                   !.thread = [NoThread EXCEPT !.id = ExtVal(i, 6, Str("pth"))]],
     !.result = [NoBody EXCEPT !.threadId = ExtVal(i, 5, Str("r"))]]
ExtEnvelopes == [i \in 1..ExtCount |-> ExtEnvelope(i)]

Envelopes == <<
  \* 1: {method: "turn/start", threadId: "t1"}
  [Env0 EXCEPT !.method = Str("turn/start"), !.threadId = Str("t1")],
  \* 2: {method: "turn/start", params: {threadId: "t2", turnId: "u1"}}
  [Env0 EXCEPT !.method = Str("turn/start"),
               !.params = [NoBody EXCEPT !.threadId = Str("t2"), !.turnId = Str("u1")]],
  \* 3: {result: {thread: {id: "t1"}}}
  [Env0 EXCEPT !.result = [NoBody EXCEPT !.thread = [NoThread EXCEPT !.id = Str("t1")]]],
  \* 4: {method: "thread/list"}
  [Env0 EXCEPT !.method = Str("thread/list")],
  \* 5: {threadId: " ", params: {turn: {thread_id: 7}}}
  [Env0 EXCEPT !.threadId = Str(" "),
               !.params = [NoBody EXCEPT !.turn = [NoTurn EXCEPT !.thread_id = Num(7)]]],
  \* 6: {_replay: true, threadId: "t1"}
  [Env0 EXCEPT !.replay = TRUE, !.threadId = Str("t1")],
  \* 7: {threadId: "", result: {item: {threadId: ""}}}
  [Env0 EXCEPT !.threadId = Str(""),
               !.result = [NoBody EXCEPT !.item = [NoItem EXCEPT !.threadId = Str("")]]],
  \* 8: not JSON
  NotJson,
  \* 9: {type: "ping", threadId: "t1"}
  [Env0 EXCEPT !.type = Str("ping"), !.threadId = Str("t1")],
  \* 10: {type: "orbit.subscribe", threadId: "t1"}
  [Env0 EXCEPT !.type = Str("orbit.subscribe"), !.threadId = Str("t1")],
  \* 11: {type: "orbit.subscribe", threadId: "t2"}
  [Env0 EXCEPT !.type = Str("orbit.subscribe"), !.threadId = Str("t2")],
  \* 12: {type: "orbit.list-anchors"}
  [Env0 EXCEPT !.type = Str("orbit.list-anchors")],
  \* 13: {type: "orbit.subscribe", threadId: 7}
  [Env0 EXCEPT !.type = Str("orbit.subscribe"), !.threadId = Num(7)],
  \* 14: {type: "anchor.hello", hostname: "mac", platform: "darwin", threadId: "t2"}
  [Env0 EXCEPT !.type = Str("anchor.hello"), !.hostname = Str("mac"),
               !.platform = Str("darwin"), !.threadId = Str("t2")]
>> \o ExtEnvelopes

Texts == 1..Len(Envelopes)

\* src parseJsonMessage: the object, or null for what is no JSON object
parseJsonMessage(text) ==
  IF Envelopes[text].json = "object" THEN Envelopes[text] ELSE Null

\* message.params && typeof message.params === "object" ? message.params : null
ObjOrNull(v) == IF v.t = "object" THEN v ELSE Null

extractThreadId(message) ==
  LET top == FirstId(<<message.threadId, message.thread_id>>)
      params == ObjOrNull(message.params)
      result == ObjOrNull(message.result)
      threadFromParams == ObjOrNull(Get(params, "thread"))
      threadFromTurnParams == ObjOrNull(Get(Get(params, "turn"), "thread"))
      threadIdFromTurnParams ==
        Coalesce(Coalesce(Get(Get(params, "turn"), "threadId"),
                          Get(Get(params, "turn"), "thread_id")), Null)
      threadIdFromItemParams ==
        Coalesce(Coalesce(Get(Get(params, "item"), "threadId"),
                          Get(Get(params, "item"), "thread_id")), Null)
      threadFromResult == ObjOrNull(Get(result, "thread"))
      threadFromTurnResult == ObjOrNull(Get(Get(result, "turn"), "thread"))
      threadIdFromTurnResult ==
        Coalesce(Coalesce(Get(Get(result, "turn"), "threadId"),
                          Get(Get(result, "turn"), "thread_id")), Null)
      threadIdFromItemResult ==
        Coalesce(Coalesce(Get(Get(result, "item"), "threadId"),
                          Get(Get(result, "item"), "thread_id")), Null)
      candidates == <<
        Get(params, "threadId"), Get(params, "thread_id"),
        threadIdFromTurnParams, threadIdFromItemParams,
        Get(result, "threadId"), Get(result, "thread_id"),
        threadIdFromTurnResult, threadIdFromItemResult,
        Get(threadFromParams, "id"), Get(threadFromTurnParams, "id"),
        Get(threadFromResult, "id"), Get(threadFromTurnResult, "id") >>
  IN IF top # Null THEN top ELSE FirstId(candidates)

extractTurnId(message) ==
  LET params == ObjOrNull(message.params)
      result == ObjOrNull(message.result)
  IN FirstId(<<
       Get(params, "turnId"), Get(params, "turn_id"),
       Get(Get(params, "turn"), "id"), Get(Get(params, "turn"), "turnId"),
       Get(Get(params, "turn"), "turn_id"),
       Get(result, "turnId"), Get(result, "turn_id"),
       Get(Get(result, "turn"), "id"), Get(Get(result, "turn"), "turnId"),
       Get(Get(result, "turn"), "turn_id") >>)

extractMethod(message) ==
  IF message.method.t = "string" THEN message.method ELSE Null

(***************************************************************************)
(* The bearer token                                                        *)
(***************************************************************************)
\* The n-th value of crypto.getRandomValues, as hex digits: each draw is a
\* value not drawn before.  Token 0 is the configured one.
randomTokenHex(n) == <<n \div 4, n % 4>>

RECURSIVE BitXor(_, _)
BitXor(a, b) ==
  IF a = 0 /\ b = 0 THEN 0
  ELSE (((a % 2) + (b % 2)) % 2) + 2 * BitXor(a \div 2, b \div 2)

RECURSIVE BitOr(_, _)
BitOr(a, b) ==
  IF a = 0 /\ b = 0 THEN 0
  ELSE (IF (a % 2) = 1 \/ (b % 2) = 1 THEN 1 ELSE 0) + 2 * BitOr(a \div 2, b \div 2)

RECURSIVE XorFold(_, _, _)
XorFold(a, b, i) ==
  IF i > Len(a) THEN 0 ELSE BitOr(BitXor(a[i], b[i]), XorFold(a, b, i + 1))

\* timingSafeEqual that compares the lengths only
timingSafeEqual_lengthOnly(a, b) == Len(a) = Len(b)

timingSafeEqual(a, b) ==
  IF Len(a) # Len(b) THEN FALSE ELSE XorFold(a, b, 1) = 0

\* A request's credentials: the Authorization header and the token query
\* parameter.  A header is absent, "Bearer <cred>" or another scheme.
NoHeader == [scheme |-> "none", cred |-> <<>>]
Bearer(c) == [scheme |-> "bearer", cred |-> c]
Basic(c) == [scheme |-> "basic", cred |-> c]
NoParam == [present |-> FALSE, cred |-> <<>>]
Param(c) == [present |-> TRUE, cred |-> c]

\* null, or the header's value after "Bearer "
getBearer(req) ==
  IF req.auth.scheme # "bearer" THEN NoParam ELSE Param(req.auth.cred)

\* getBearer(req) ?? searchParams.get("token")
Provided(req) == IF getBearer(req).present THEN getBearer(req) ELSE req.token

(***************************************************************************)
(* State                                                                   *)
(***************************************************************************)
VARIABLES
  AUTH_TOKEN,       \* the shared secret in memory
  tokensMade,       \* how many tokens randomTokenHex has drawn
  config,           \* the token field of config.json
  ws,               \* the transport's sockets: state, ws.data, credential used
  clientSockets,    \* Map<WebSocket, Set<string>>
  anchorSockets,    \* Map<WebSocket, Set<string>>
  threadToClients,  \* Map<string, Set<WebSocket>>
  threadToAnchors,  \* Map<string, Set<WebSocket>>
  anchorMeta,       \* Map<WebSocket, AnchorMeta>
  inflight,         \* relay() calls suspended at await injectThreadTitles
  events,           \* the rows of table events, in insertion order
  seq,              \* the last id AUTOINCREMENT handed out
  pairCodes,        \* Map<string, {token, expiresAt}>
  codesMade,        \* how many codes randomPairCode has drawn
  minted,           \* the responses of /admin/pair/new, by code
  now,              \* the clock, in seconds
  consume,          \* the /pair/consume requests being served
  step,             \* the last handler step: which handler, on what input
  effects,          \* what the last handler step did, in order
  resp,             \* the response of the last HTTP request
  replayed,         \* the rows of the last /threads/:id/events response
  uploadTokens,     \* table upload_tokens, by token
  files,            \* the files of the upload directory, by path
  awaiting,         \* the upload requests suspended at their first await
  uploadsMade,      \* how many upload tokens randomTokenHex has drawn
  anchorProc,       \* the supervised child, or none
  procs,            \* the child processes spawned so far
  trace             \* history: the envelopes the relay received and delivered

vars == <<AUTH_TOKEN, tokensMade, config, ws, clientSockets, anchorSockets, threadToClients,
          threadToAnchors, anchorMeta, inflight, events, seq, pairCodes, codesMade,
          minted, now, consume, step, effects, resp, replayed, uploadTokens, files,
          awaiting, uploadsMade, anchorProc, procs, trace>>

authVars == <<AUTH_TOKEN, tokensMade, config>>
regVars == <<clientSockets, anchorSockets, threadToClients, threadToAnchors, anchorMeta>>
logVars == <<events, seq>>
pairVars == <<pairCodes, codesMade, minted, consume>>
upVars == <<uploadTokens, files, awaiting, uploadsMade>>
supVars == <<anchorProc, procs>>

\* Boolean(provided && timingSafeEqual(provided, AUTH_TOKEN))
\* authorised without the comparison with AUTH_TOKEN
authorised_anyToken(req) ==
  /\ Provided(req).present
  /\ Provided(req).cred # <<>>

authorised(req) ==
  /\ Provided(req).present
  /\ Provided(req).cred # <<>>
  /\ timingSafeEqual(Provided(req).cred, AUTH_TOKEN)

\* Map helpers
MapSet(m, k, v) == [x \in DOMAIN m \cup {k} |-> IF x = k THEN v ELSE m[x]]
MapDel(m, k) == [x \in DOMAIN m \ {k} |-> m[x]]
MapGet(m, k, d) == IF k \in DOMAIN m THEN m[k] ELSE d
EmptyMap == [x \in {} |-> {}]

\* The elements of a set of sockets in ascending order: the order the model
\* gives to the iteration of a Map's keys or a Set.
RECURSIVE SeqOf(_)
SeqOf(S) ==
  IF S = {} THEN <<>>
  ELSE LET m == CHOOSE x \in S : \A y \in S : x <= y
       IN <<m>> \o SeqOf(S \ {m})

NoWs == [state |-> "none", role |-> "", anchorId |-> "", token |-> <<>>]

\* Effects of a handler step
SendText(to, text, form) ==
  [op |-> "send", to |-> to, text |-> text, form |-> form, ctl |-> "", arg |-> ""]
SendCtl(to, ctl, arg) ==
  [op |-> "send", to |-> to, text |-> 0, form |-> "", ctl |-> ctl, arg |-> arg]
Logged(text) ==
  [op |-> "log", to |-> 0, text |-> text, form |-> "", ctl |-> "", arg |-> ""]

\* a send() without its try and catch: the first write that throws ends the
\* loop that called it
RECURSIVE send_uncaught(_, _, _)
send_uncaught(dlv, fx, bad) ==
  IF fx = <<>> THEN dlv
  ELSE IF Head(fx).op = "send" /\ Head(fx).to \in bad THEN dlv
  ELSE send_uncaught(IF Head(fx).op = "send"
                     THEN [dlv EXCEPT ![Head(fx).to] = Append(@, Head(fx).text)]
                     ELSE dlv,
                     Tail(fx), bad)

\* send(ws, data) for the calls of fx in their order: try { ws.send(data) }
\* catch { ignore }. The writes to the sockets of bad throw; dlv holds, per
\* socket, the texts written to it.
RECURSIVE send(_, _, _)
send(dlv, fx, bad) ==
  IF fx = <<>> THEN dlv
  ELSE send(IF Head(fx).op = "send" /\ Head(fx).to \notin bad
            THEN [dlv EXCEPT ![Head(fx).to] = Append(@, Head(fx).text)]
            ELSE dlv,
            Tail(fx), bad)

\* for (const ws of targets) send(ws, data)
RECURSIVE SendAll(_, _, _)
SendAll(targets, text, form) ==
  IF targets = <<>> THEN <<>>
  ELSE <<SendText(Head(targets), text, form)>> \o SendAll(Tail(targets), text, form)

RECURSIVE CtlAll(_, _, _)
CtlAll(targets, ctl, arg) ==
  IF targets = <<>> THEN <<>>
  ELSE <<SendCtl(Head(targets), ctl, arg)>> \o CtlAll(Tail(targets), ctl, arg)

\* A handler step: the handler and, for relay(), the sender's role, the text
\* and whether the database accepted the insert.
Step(h, role, text, dbOk) == [h |-> h, role |-> role, text |-> text, dbOk |-> dbOk]
Did(h) == Step(h, "", 0, TRUE)
NoStep == Did("")

\* An HTTP response, with the credentials of the request it answers
NoReq == [auth |-> NoHeader, token |-> NoParam]
\* and, for the upload routes, the token of the path and the body
RespOf(path, seg, req, status, body) ==
  [path |-> path, seg |-> seg, req |-> req, status |-> status, body |-> body]
Resp(path, req, status) == RespOf(path, <<>>, req, status, "")
NoResp == Resp("", NoReq, 0)

\* The /threads/:id/events query answered last: the thread of the path, the
\* limit and order parameters as sent, and the rows selected
NoReplay == [thread |-> "", limitRaw |-> Null, orderRaw |-> Null, rows |-> <<>>]

\* The supervised child: none, or the index in procs of the process spawned
NoProc == 0

\* The history of relayed envelopes: recv lists those the relay received, in
\* order, each with its sender; pend names, for each suspended relay call of
\* inflight, the envelope of recv it carries; dlv lists for each socket the
\* envelopes of recv sent to it, in order
NoTrace == [recv |-> <<>>, pend |-> <<>>, dlv |-> [x \in Sock |-> <<>>]]

\* A /pair/consume request: where it stands, the code of its body, its
\* response, and when it was answered (at: the how-manieth answer, ts: the
\* clock, epoch: the number of tokens drawn)
IdleReq == [pc |-> "idle", code |-> "", status |-> 0, token |-> <<>>, error |-> "",
            at |-> 0, ts |-> 0, epoch |-> 0]

\* the state after start-up, the database file holding the rows stored
InitWith(stored) ==
  /\ AUTH_TOKEN = randomTokenHex(0)
  /\ tokensMade = 1
  /\ config = randomTokenHex(0)
  /\ ws = [s \in Sock |-> NoWs]
  /\ clientSockets = EmptyMap
  /\ anchorSockets = EmptyMap
  /\ threadToClients = EmptyMap
  /\ threadToAnchors = EmptyMap
  /\ anchorMeta = EmptyMap
  /\ inflight = <<>>
  /\ events = stored
  /\ seq = Len(stored)
  /\ pairCodes = EmptyMap
  /\ codesMade = 0
  /\ minted = EmptyMap
  /\ now = 0
  /\ consume = [r \in 1..NReq |-> IdleReq]
  /\ step = NoStep
  /\ effects = <<>>
  /\ resp = NoResp
  /\ replayed = NoReplay
  /\ uploadTokens = EmptyMap
  /\ files = EmptyMap
  /\ awaiting = {}
  /\ uploadsMade = 0
  /\ anchorProc = NoProc
  /\ procs = <<>>
  /\ trace = NoTrace

\* start-up with an empty database
Init == InitWith(<<>>)

(***************************************************************************)
(* Connection registry                                                     *)
(***************************************************************************)
RoleOfPath(path) == IF path = "/ws/anchor" THEN "anchor" ELSE "client"

\* ws.close(code, reason) called by the relay: the socket stops carrying
\* messages; its close callback comes as an event of its own.
CloseCalled(w, S) ==
  [x \in Sock |-> IF x \in S /\ w[x].state = "open"
                  THEN [w[x] EXCEPT !.state = "closing"] ELSE w[x]]

\* the upgrade routes without their authorised(req) check
Upgrade_unguarded(s, path, anchorId, req) ==
  /\ ws[s].state = "none"
  /\ ws' = [ws EXCEPT ![s] =
              [state |-> "upgraded", role |-> RoleOfPath(path),
               anchorId |-> IF RoleOfPath(path) = "anchor" THEN anchorId ELSE "",
               token |-> Provided(req).cred]]
  /\ resp' = Resp(path, req, 101)
  /\ step' = Did("fetch")
  /\ effects' = <<>>
  /\ UNCHANGED <<upVars, supVars, trace, authVars, regVars, inflight, logVars, pairVars, now,
                 replayed>>

\* fetch, /ws, /ws/client and /ws/anchor
Upgrade(s, path, anchorId, req) ==
  /\ ws[s].state = "none"
  /\ IF authorised(req)
     THEN /\ ws' = [ws EXCEPT ![s] =
                     [state |-> "upgraded", role |-> RoleOfPath(path),
                      anchorId |-> IF RoleOfPath(path) = "anchor" THEN anchorId ELSE "",
                      token |-> Provided(req).cred]]
          /\ resp' = Resp(path, req, 101)
     ELSE /\ ws' = ws
          /\ resp' = Resp(path, req, 401)
  /\ step' = Did("fetch")
  /\ effects' = <<>>
  /\ UNCHANGED <<upVars, supVars, trace, authVars, regVars, inflight, logVars, pairVars, now, replayed>>

\* websocket.open
Open(s) ==
  /\ ws[s].state = "upgraded"
  /\ LET role == ws[s].role
         stableId == trim(ws[s].anchorId)
         meta == [id |-> IF stableId # "" THEN stableId ELSE "pending",
                  hostname |-> "unknown", platform |-> "unknown", connectedAt |-> now]
         replaced == IF role = "anchor" /\ stableId # ""
                     THEN {e \in DOMAIN anchorMeta : e # s /\ anchorMeta[e].id = stableId}
                     ELSE {}
     IN /\ clientSockets' =
             IF role = "client" THEN MapSet(clientSockets, s, {}) ELSE clientSockets
        /\ anchorSockets' =
             IF role = "client" THEN anchorSockets ELSE MapSet(anchorSockets, s, {})
        /\ ws' = CloseCalled([ws EXCEPT ![s].state = "open"], replaced)
        /\ anchorMeta' = IF role = "anchor" THEN MapSet(anchorMeta, s, meta) ELSE anchorMeta
        /\ effects' = <<SendCtl(s, "orbit.hello", role)>> \o
             (IF role = "anchor"
              THEN CtlAll(SeqOf(DOMAIN clientSockets), "orbit.anchor-connected", meta.id)
              ELSE <<>>)
  /\ step' = Did("open")
  /\ UNCHANGED <<upVars, supVars, trace, authVars, threadToClients, threadToAnchors, inflight, logVars,
                 pairVars, now, resp, replayed>>

\* an unsubscribeAll that keeps the subscriber sets it has emptied
unsubscribeAll_keepEmpty(idx, subs, s) ==
  [T \in DOMAIN idx |-> IF T \in subs THEN idx[T] \ {s} ELSE idx[T]]

\* an unsubscribeAll that leaves the reverse index as it is
unsubscribeAll_none(idx, subs, s) == idx

\* an unsubscribeAll that stops after the first thread of subs
unsubscribeAll_firstOnly(idx, subs, s) ==
  LET first == IF subs = {} THEN {} ELSE {CHOOSE T \in subs : TRUE} IN
  [T \in {T \in DOMAIN idx : ~(T \in first /\ idx[T] \ {s} = {})} |->
     IF T \in first THEN idx[T] \ {s} ELSE idx[T]]

\* unsubscribeAll: the reverse index without ws under the threads of subs
unsubscribeAll(idx, subs, s) ==
  [T \in {T \in DOMAIN idx : ~(T \in subs /\ idx[T] \ {s} = {})} |->
     IF T \in subs THEN idx[T] \ {s} ELSE idx[T]]

\* a close callback that tells no client
Close_quiet(s) ==
  /\ ws[s].state \in {"open", "closing"}
  /\ LET role == ws[s].role IN
     IF role = "client"
     THEN /\ threadToClients' =
               unsubscribeAll(threadToClients, MapGet(clientSockets, s, {}), s)
          /\ clientSockets' = MapDel(clientSockets, s)
          /\ UNCHANGED <<anchorSockets, threadToAnchors, anchorMeta>>
     ELSE /\ threadToAnchors' =
               unsubscribeAll(threadToAnchors, MapGet(anchorSockets, s, {}), s)
          /\ anchorSockets' = MapDel(anchorSockets, s)
          /\ anchorMeta' = MapDel(anchorMeta, s)
          /\ UNCHANGED <<clientSockets, threadToClients>>
  /\ effects' = <<>>
  /\ ws' = [ws EXCEPT ![s] = NoWs]
  /\ step' = Did("close")
  /\ UNCHANGED <<upVars, supVars, trace, authVars, inflight, logVars, pairVars, now, resp, replayed>>

\* websocket.close
Close(s) ==
  /\ ws[s].state \in {"open", "closing"}
  /\ LET role == ws[s].role IN
     IF role = "client"
     THEN /\ threadToClients' =
               unsubscribeAll(threadToClients, MapGet(clientSockets, s, {}), s)
          /\ clientSockets' = MapDel(clientSockets, s)
          /\ effects' = <<>>
          /\ UNCHANGED <<anchorSockets, threadToAnchors, anchorMeta>>
     ELSE /\ threadToAnchors' =
               unsubscribeAll(threadToAnchors, MapGet(anchorSockets, s, {}), s)
          /\ anchorSockets' = MapDel(anchorSockets, s)
          /\ anchorMeta' = MapDel(anchorMeta, s)
          /\ effects' =
               IF s \in DOMAIN anchorMeta
               THEN CtlAll(SeqOf(DOMAIN clientSockets), "orbit.anchor-disconnected",
                           anchorMeta[s].id)
               ELSE <<>>
          /\ UNCHANGED <<clientSockets, threadToClients>>
  /\ ws' = [ws EXCEPT ![s] = NoWs]
  /\ step' = Did("close")
  /\ UNCHANGED <<upVars, supVars, trace, authVars, inflight, logVars, pairVars, now, resp, replayed>>

(***************************************************************************)
(* Message router                                                          *)
(***************************************************************************)
\* type.startsWith("orbit."), over the type strings of the model
OrbitTypes == {"orbit.subscribe", "orbit.list-anchors", "orbit.hello"}
IsOrbit(obj) == obj # Null /\ obj.type.t = "string" /\ obj.type.s \in OrbitTypes
IsPing(obj) == obj # Null /\ obj.type = Str("ping")
IsHello(obj, role) == obj # Null /\ obj.type = Str("anchor.hello") /\ role = "anchor"

\* websocket.message, obj?.type === "ping"
Ping(s, text) ==
  /\ ws[s].state = "open"
  /\ IsPing(parseJsonMessage(text))
  /\ effects' = <<SendCtl(s, "pong", "")>>
  /\ step' = Did("ping")
  /\ UNCHANGED <<upVars, supVars, authVars, ws, regVars, inflight, logVars, pairVars, now, resp, replayed>>

\* a subscribe that signals every anchor socket, subscribed or not
subscribe_notifyAll(role, s, threadId) ==
  LET socks == IF role = "client" THEN clientSockets ELSE anchorSockets
      idx == IF role = "client" THEN threadToClients ELSE threadToAnchors
      noop == s \notin DOMAIN socks \/ threadId \in socks[s]
  IN [socks |-> IF noop THEN socks ELSE MapSet(socks, s, socks[s] \cup {threadId}),
      idx |-> IF noop THEN idx
              ELSE MapSet(idx, threadId, MapGet(idx, threadId, {}) \cup {s}),
      fx |-> IF noop \/ role # "client" THEN <<>>
             ELSE CtlAll(SeqOf(DOMAIN anchorSockets), "orbit.client-subscribed", threadId)]

\* subscribe without its test subs.has(threadId)
subscribe_again(role, s, threadId) ==
  LET socks == IF role = "client" THEN clientSockets ELSE anchorSockets
      idx == IF role = "client" THEN threadToClients ELSE threadToAnchors
      noop == s \notin DOMAIN socks
  IN [socks |-> IF noop THEN socks ELSE MapSet(socks, s, socks[s] \cup {threadId}),
      idx |-> IF noop THEN idx
              ELSE MapSet(idx, threadId, MapGet(idx, threadId, {}) \cup {s}),
      fx |-> IF noop \/ role # "client" THEN <<>>
             ELSE CtlAll(SeqOf(MapGet(threadToAnchors, threadId, {})),
                         "orbit.client-subscribed", threadId)]

\* subscribe(role, ws, threadId): the sockets' map, the reverse index and
\* the "client watching" signals
subscribe(role, s, threadId) ==
  LET socks == IF role = "client" THEN clientSockets ELSE anchorSockets
      idx == IF role = "client" THEN threadToClients ELSE threadToAnchors
      noop == s \notin DOMAIN socks \/ threadId \in socks[s]
  IN [socks |-> IF noop THEN socks ELSE MapSet(socks, s, socks[s] \cup {threadId}),
      idx |-> IF noop THEN idx
              ELSE MapSet(idx, threadId, MapGet(idx, threadId, {}) \cup {s}),
      fx |-> IF noop \/ role # "client" THEN <<>>
             ELSE CtlAll(SeqOf(MapGet(threadToAnchors, threadId, {})),
                         "orbit.client-subscribed", threadId)]

\* listAnchors(): the values of anchorMeta (here in the order of the sockets)
listAnchors ==
  [i \in 1..Cardinality(DOMAIN anchorMeta) |-> anchorMeta[SeqOf(DOMAIN anchorMeta)[i]]]

\* websocket.message, a type starting with "orbit."
Orbit(s, text) ==
  /\ ws[s].state = "open"
  /\ LET obj == parseJsonMessage(text)
         role == ws[s].role
     IN /\ ~IsPing(obj)
        /\ IsOrbit(obj)
        /\ IF obj.type.s = "orbit.subscribe" /\ obj.threadId.t = "string"
           THEN LET r == subscribe(role, s, obj.threadId.s) IN
                /\ clientSockets' = IF role = "client" THEN r.socks ELSE clientSockets
                /\ threadToClients' = IF role = "client" THEN r.idx ELSE threadToClients
                /\ anchorSockets' = IF role = "client" THEN anchorSockets ELSE r.socks
                /\ threadToAnchors' = IF role = "client" THEN threadToAnchors ELSE r.idx
                /\ effects' = r.fx
           ELSE /\ effects' =
                     IF obj.type.s = "orbit.list-anchors"
                     THEN <<SendCtl(s, "orbit.anchors", listAnchors)>> ELSE <<>>
                /\ UNCHANGED <<clientSockets, threadToClients, anchorSockets,
                               threadToAnchors>>
  /\ step' = Did("orbit")
  /\ UNCHANGED <<upVars, supVars, authVars, ws, anchorMeta, inflight, logVars, pairVars, now, resp,
                 replayed>>

\* websocket.message, anchor.hello from an anchor
AnchorHello(s, text) ==
  /\ ws[s].state = "open"
  /\ LET obj == parseJsonMessage(text)
         meta == anchorMeta[s]
         hostname == IF obj.hostname.t = "string" THEN obj.hostname.s ELSE meta.hostname
         platform == IF obj.platform.t = "string" THEN obj.platform.s ELSE meta.platform
         id == IF meta.id = "pending" /\ (hostname # "unknown" \/ platform # "unknown")
               THEN hostname \o ":" \o platform ELSE meta.id
     IN /\ ~IsPing(obj) /\ ~IsOrbit(obj)
        /\ IsHello(obj, ws[s].role)
        /\ IF s \in DOMAIN anchorMeta
           THEN /\ anchorMeta' = [anchorMeta EXCEPT ![s] =
                     [meta EXCEPT !.hostname = hostname, !.platform = platform, !.id = id]]
                /\ effects' = CtlAll(SeqOf(DOMAIN clientSockets),
                                     "orbit.anchor-connected", id)
           ELSE /\ anchorMeta' = anchorMeta
                /\ effects' = <<>>
  /\ step' = Did("hello")
  /\ UNCHANGED <<upVars, supVars, authVars, ws, clientSockets, anchorSockets, threadToClients,
                 threadToAnchors, inflight, logVars, pairVars, now, resp, replayed>>

\* extractThreadId(parseJsonMessage(text)), tabulated over the texts
threadIdOf == [text \in Texts |->
  IF parseJsonMessage(text) = Null THEN Null ELSE extractThreadId(parseJsonMessage(text))]

\* logEvent that records only what clients send
logEvent_clientOnly(direction, role, text, dbOk) ==
  LET msg == parseJsonMessage(text) IN
  IF msg = Null THEN <<>>
  ELSE IF msg.replay THEN <<>>
  ELSE IF threadIdOf[text] = Null THEN <<>>
  ELSE IF ~dbOk \/ role # "client" THEN <<>>
  ELSE <<[id |-> seq + 1, thread_id |-> threadIdOf[text].s,
          turn_id |-> extractTurnId(msg), direction |-> direction, role |-> role,
          method |-> extractMethod(msg),
          payload |-> [ts |-> now, direction |-> direction, message |-> text],
          created_at |-> now]>>

\* logEvent that files an envelope without a thread id under "ungrouped"
logEvent_ungrouped(direction, role, text, dbOk) ==
  LET msg == parseJsonMessage(text) IN
  IF msg = Null THEN <<>>
  ELSE IF msg.replay THEN <<>>
  ELSE IF ~dbOk THEN <<>>
  ELSE <<[id |-> seq + 1,
          thread_id |-> IF threadIdOf[text] = Null THEN "ungrouped" ELSE threadIdOf[text].s,
          turn_id |-> extractTurnId(msg), direction |-> direction, role |-> role,
          method |-> extractMethod(msg),
          payload |-> [ts |-> now, direction |-> direction, message |-> text],
          created_at |-> now]>>

\* logEvent: the rows it inserts; dbOk is whether insertEvent.run succeeds
logEvent(direction, role, text, dbOk) ==
  LET msg == parseJsonMessage(text) IN
  IF msg = Null THEN <<>>
  ELSE IF msg.replay THEN <<>>
  ELSE IF threadIdOf[text] = Null THEN <<>>
  ELSE IF ~dbOk THEN <<>>
  ELSE <<[id |-> seq + 1, thread_id |-> threadIdOf[text].s,
          turn_id |-> extractTurnId(msg), direction |-> direction, role |-> role,
          method |-> extractMethod(msg),
          payload |-> [ts |-> now, direction |-> direction, message |-> text],
          created_at |-> now]>>

\* whether logEvent reaches insertEvent.run
Inserts(text) ==
  /\ parseJsonMessage(text) # Null
  /\ ~parseJsonMessage(text).replay
  /\ threadIdOf[text] # Null

\* the effect of the rows logEvent inserted
LogFx(rows) == IF rows = <<>> THEN <<>> ELSE <<Logged(rows[1].payload.message)>>

\* relay without the thread lookup: every envelope goes to all sockets of the
\* opposite role
relay_toAll(fromRole, text, form, dbOk) ==
  LET all == IF fromRole = "client" THEN anchorSockets ELSE clientSockets
      rows == logEvent(IF fromRole = "client" THEN "client" ELSE "server", fromRole,
                       text, dbOk)
  IN [rows |-> rows, fx |-> LogFx(rows) \o SendAll(SeqOf(DOMAIN all), text, form)]

\* relay without the fallback for a thread no anchor has subscribed to
relay_noFallback(fromRole, text, form, dbOk) ==
  LET threadId == threadIdOf[text]
      targets == IF fromRole = "client" THEN threadToAnchors ELSE threadToClients
      all == IF fromRole = "client" THEN anchorSockets ELSE clientSockets
      rows == logEvent(IF fromRole = "client" THEN "client" ELSE "server", fromRole,
                       text, dbOk)
  IN [rows |-> rows,
      fx |-> IF threadId # Null
             THEN LogFx(rows) \o SendAll(SeqOf(MapGet(targets, threadId.s, {})), text, form)
             ELSE LogFx(rows) \o SendAll(SeqOf(DOMAIN all), text, form)]

\* relay with logEvent called after the sends
relay_sendFirst(fromRole, text, form, dbOk) ==
  LET threadId == threadIdOf[text]
      targets == IF fromRole = "client" THEN threadToAnchors ELSE threadToClients
      all == IF fromRole = "client" THEN anchorSockets ELSE clientSockets
      rows == logEvent(IF fromRole = "client" THEN "client" ELSE "server", fromRole,
                       text, dbOk)
      set == MapGet(targets, threadId.s, {})
  IN [rows |-> rows,
      fx |-> IF threadId # Null
             THEN IF fromRole = "client" /\ set = {}
                  THEN SendAll(SeqOf(DOMAIN anchorSockets), text, "raw") \o LogFx(rows)
                  ELSE SendAll(SeqOf(set), text, form) \o LogFx(rows)
             ELSE SendAll(SeqOf(DOMAIN all), text, form) \o LogFx(rows)]

\* relay() with the clients' fallback broadcast applied to anchors as well
relay_anchorFallback(fromRole, text, form, dbOk) ==
  LET threadId == threadIdOf[text]
      targets == IF fromRole = "client" THEN threadToAnchors ELSE threadToClients
      all == IF fromRole = "client" THEN anchorSockets ELSE clientSockets
      rows == logEvent(IF fromRole = "client" THEN "client" ELSE "server", fromRole,
                       text, dbOk)
      set == MapGet(targets, threadId.s, {})
  IN [rows |-> rows,
      fx |-> IF threadId # Null
             THEN IF set = {}
                  THEN LogFx(rows) \o SendAll(SeqOf(DOMAIN all), text, "raw")
                  ELSE LogFx(rows) \o SendAll(SeqOf(set), text, form)
             ELSE LogFx(rows) \o SendAll(SeqOf(DOMAIN all), text, form)]

\* relay that drops an envelope without a thread id
relay_noBroadcast(fromRole, text, form, dbOk) ==
  LET threadId == threadIdOf[text]
      targets == IF fromRole = "client" THEN threadToAnchors ELSE threadToClients
      rows == logEvent(IF fromRole = "client" THEN "client" ELSE "server", fromRole,
                       text, dbOk)
      set == MapGet(targets, threadId.s, {})
  IN [rows |-> rows,
      fx |-> IF threadId # Null
             THEN IF fromRole = "client" /\ set = {}
                  THEN LogFx(rows) \o SendAll(SeqOf(DOMAIN anchorSockets), text, "raw")
                  ELSE LogFx(rows) \o SendAll(SeqOf(set), text, form)
             ELSE LogFx(rows)]

\* relay, from const threadId = extractThreadId(msg) on: the rows logged and
\* the effects in the order relay performs them.  form is the form of msgOut.
relay(fromRole, text, form, dbOk) ==
  LET msg == parseJsonMessage(text)
      threadId == threadIdOf[text]
      targets == IF fromRole = "client" THEN threadToAnchors ELSE threadToClients
      all == IF fromRole = "client" THEN anchorSockets ELSE clientSockets
      rows == logEvent(IF fromRole = "client" THEN "client" ELSE "server", fromRole,
                       text, dbOk)
      set == MapGet(targets, threadId.s, {})
  IN [rows |-> rows,
      fx |-> IF threadId # Null
             THEN IF fromRole = "client" /\ set = {}
                  THEN LogFx(rows) \o SendAll(SeqOf(DOMAIN anchorSockets), text, "raw")
                  ELSE LogFx(rows) \o SendAll(SeqOf(set), text, form)
             ELSE LogFx(rows) \o SendAll(SeqOf(DOMAIN all), text, form)]

\* a message handler whose ping and orbit.* branches do not return
Relayed_controlToo(obj, role) == ~IsHello(obj, role)

\* what reaches relay(): neither a ping, nor orbit.*, nor an anchor's hello
Relayed(obj, role) == ~IsPing(obj) /\ ~IsOrbit(obj) /\ ~IsHello(obj, role)

\* websocket.message of a client socket, through relay() to its end
RelayClient(s, text, dbOk, cap) ==
  /\ ws[s].state = "open"
  /\ ws[s].role = "client"
  /\ Relayed(parseJsonMessage(text), "client")
  /\ ~dbOk => Inserts(text)
  /\ LET r == IF parseJsonMessage(text) = Null THEN [rows |-> <<>>, fx |-> <<>>]
              ELSE relay("client", text, "raw", dbOk)
     IN /\ r.rows # <<>> => seq < cap
        /\ events' = events \o r.rows
        /\ seq' = seq + Len(r.rows)
        /\ effects' = r.fx
  /\ step' = Step("relay", "client", text, dbOk)
  /\ UNCHANGED <<upVars, supVars, authVars, ws, regVars, inflight, pairVars, now, resp, replayed>>

\* websocket.message of an anchor socket that logs the envelope on receipt,
\* before await injectThreadTitles(cloned)
RelayAnchor_logFirst(s, text, cap) ==
  /\ ws[s].state = "open"
  /\ ws[s].role = "anchor"
  /\ Relayed(parseJsonMessage(text), "anchor")
  /\ IF parseJsonMessage(text) = Null
     THEN UNCHANGED <<inflight, logVars>>
     ELSE /\ Len(inflight) < cap
          /\ inflight' = Append(inflight, [fromRole |-> "anchor", text |-> text])
          /\ events' = events \o logEvent("server", "anchor", text, TRUE)
          /\ seq' = seq + Len(logEvent("server", "anchor", text, TRUE))
  /\ effects' = <<>>
  /\ step' = Did("relay-await")
  /\ UNCHANGED <<upVars, supVars, authVars, ws, regVars, pairVars, now, resp, replayed>>

\* websocket.message of an anchor socket, through relay() up to
\* await injectThreadTitles(cloned)
RelayAnchor(s, text, cap) ==
  /\ ws[s].state = "open"
  /\ ws[s].role = "anchor"
  /\ Relayed(parseJsonMessage(text), "anchor")
  /\ IF parseJsonMessage(text) = Null
     THEN inflight' = inflight
     ELSE /\ Len(inflight) < cap
          /\ inflight' = Append(inflight, [fromRole |-> "anchor", text |-> text])
  /\ effects' = <<>>
  /\ step' = Did("relay-await")
  /\ UNCHANGED <<upVars, supVars, authVars, ws, regVars, logVars, pairVars, now, resp, replayed>>

\* injectThreadTitles changes the clone only where it finds a thread object
CanTitle(msg) ==
  \/ /\ msg.method = Str("thread/started")
     /\ Get(Get(ObjOrNull(msg.params), "thread"), "id").t = "string"
  \/ /\ msg.method \in {Str("thread/get"), Undef}
     /\ Get(Get(ObjOrNull(msg.result), "thread"), "id").t = "string"

Remove(q, i) == SubSeq(q, 1, i - 1) \o SubSeq(q, i + 1, Len(q))

\* relay() of an anchor's message, from the await to its end
RelayResume(i, titled, dbOk, cap) ==
  /\ i \in 1..Len(inflight)
  /\ titled => CanTitle(parseJsonMessage(inflight[i].text))
  /\ ~dbOk => Inserts(inflight[i].text)
  /\ LET r == relay(inflight[i].fromRole, inflight[i].text,
                    IF titled THEN "titled" ELSE "json", dbOk)
     IN /\ r.rows # <<>> => seq < cap
        /\ events' = events \o r.rows
        /\ seq' = seq + Len(r.rows)
        /\ effects' = r.fx
  /\ step' = Step("relay", inflight[i].fromRole, inflight[i].text, dbOk)
  /\ inflight' = Remove(inflight, i)
  /\ UNCHANGED <<upVars, supVars, authVars, ws, regVars, pairVars, now, resp, replayed>>

(***************************************************************************)
(* Token guard, rotation and pairing codes                                 *)
(***************************************************************************)
PAIR_TTL_SEC == 300

\* Date.now(), in milliseconds
DateNow == now * 1000

\* the clock advances by dt seconds
Tick(dt) ==
  /\ now < MaxNow * dt
  /\ now' = now + dt
  /\ step' = Did("timer")
  /\ effects' = <<>>
  /\ UNCHANGED <<upVars, supVars, trace, authVars, ws, regVars, inflight, logVars, pairVars, resp, replayed>>

\* a guarded REST route without effects: GET /admin/logs
RestCall(req) ==
  /\ resp' = Resp("/admin/logs", req, IF authorised(req) THEN 200 ELSE 401)
  /\ step' = Did("fetch")
  /\ effects' = <<>>
  /\ UNCHANGED <<upVars, supVars, trace, authVars, ws, regVars, inflight, logVars, pairVars, now, replayed>>

\* closeAllSockets: ws.close() on the keys of clientSockets and anchorSockets
closeAllSockets(w) == CloseCalled(w, DOMAIN clientSockets \cup DOMAIN anchorSockets)

\* persistTokenToConfigJson; readable is whether CONFIG_JSON_PATH is set and
\* the file parses
persistTokenToConfigJson(nextToken, readable) == IF readable THEN nextToken ELSE config

\* POST /admin/token/rotate that leaves the pairing codes in the store
Rotate_keepCodes(req, readable) ==
  /\ tokensMade <= MaxRotations
  /\ IF authorised(req)
     THEN LET next == randomTokenHex(tokensMade) IN
          /\ AUTH_TOKEN' = next
          /\ tokensMade' = tokensMade + 1
          /\ config' = persistTokenToConfigJson(next, readable)
          /\ ws' = closeAllSockets(ws)
          /\ resp' = Resp("/admin/token/rotate", req, 200)
          /\ UNCHANGED pairCodes
     ELSE /\ resp' = Resp("/admin/token/rotate", req, 401)
          /\ UNCHANGED <<authVars, pairCodes, ws>>
  /\ step' = Did("fetch")
  /\ effects' = <<>>
  /\ UNCHANGED <<upVars, supVars, trace, regVars, inflight, logVars, codesMade, minted,
                 consume, now, replayed>>

\* POST /admin/token/rotate
Rotate(req, readable) ==
  /\ tokensMade <= MaxRotations
  /\ IF authorised(req)
     THEN LET next == randomTokenHex(tokensMade) IN
          /\ AUTH_TOKEN' = next
          /\ tokensMade' = tokensMade + 1
          /\ config' = persistTokenToConfigJson(next, readable)
          /\ pairCodes' = EmptyMap
          /\ ws' = closeAllSockets(ws)
          /\ resp' = Resp("/admin/token/rotate", req, 200)
     ELSE /\ resp' = Resp("/admin/token/rotate", req, 401)
          /\ UNCHANGED <<authVars, pairCodes, ws>>
  /\ step' = Did("fetch")
  /\ effects' = <<>>
  /\ UNCHANGED <<upVars, supVars, trace, regVars, inflight, logVars, codesMade, minted, consume, now, replayed>>

\* the n-th code randomPairCode draws: eight letters of its alphabet, each
\* draw a code not drawn before (the model writes three of the eight)
CodeTable == <<"AB2", "CD3", "EF4", "GH5">>
randomPairCode(n) == CodeTable[n + 1]

\* code.trim().toUpperCase(), over the code strings of the model
upperTrim(c) ==
  CASE c \in {"ab2", " AB2 "} -> "AB2"
    [] c = "cd3" -> "CD3"
    [] c = " " -> ""
    [] OTHER -> c

\* prunePairCodes
prunePairCodes(codes) ==
  [c \in {c \in DOMAIN codes : ~(DateNow > codes[c].expiresAt)} |-> codes[c]]

\* setInterval(prunePairCodes, 60_000)
PruneTimer ==
  /\ pairCodes' = prunePairCodes(pairCodes)
  /\ step' = Did("timer")
  /\ effects' = <<>>
  /\ UNCHANGED <<upVars, supVars, trace, authVars, ws, regVars, inflight, logVars, codesMade, minted, consume,
                 now, resp, replayed>>

\* POST /admin/pair/new
\* /admin/pair/new that stores the secret read at startup instead of the
\* current one
PairNew_staleToken(req) ==
  /\ codesMade < MaxMints
  /\ IF authorised(req)
     THEN LET code == randomPairCode(codesMade)
              rec == [token |-> randomTokenHex(0), expiresAt |-> DateNow + PAIR_TTL_SEC * 1000]
          IN /\ pairCodes' = MapSet(prunePairCodes(pairCodes), code, rec)
             /\ codesMade' = codesMade + 1
             /\ minted' = MapSet(minted, code,
                                 [expiresAt |-> rec.expiresAt, token |-> randomTokenHex(0),
                                  epoch |-> tokensMade])
             /\ resp' = Resp("/admin/pair/new", req, 200)
     ELSE /\ resp' = Resp("/admin/pair/new", req, 401)
          /\ UNCHANGED <<pairCodes, codesMade, minted>>
  /\ step' = Did("fetch")
  /\ effects' = <<>>
  /\ UNCHANGED <<upVars, supVars, trace, authVars, ws, regVars, inflight, logVars, consume, now, replayed>>

PairNew(req) ==
  /\ codesMade < MaxMints
  /\ IF authorised(req)
     THEN LET code == randomPairCode(codesMade)
              rec == [token |-> AUTH_TOKEN, expiresAt |-> DateNow + PAIR_TTL_SEC * 1000]
          IN /\ pairCodes' = MapSet(prunePairCodes(pairCodes), code, rec)
             /\ codesMade' = codesMade + 1
             /\ minted' = MapSet(minted, code,
                                 [expiresAt |-> rec.expiresAt, token |-> AUTH_TOKEN,
                                  epoch |-> tokensMade])
             /\ resp' = Resp("/admin/pair/new", req, 200)
     ELSE /\ resp' = Resp("/admin/pair/new", req, 401)
          /\ UNCHANGED <<pairCodes, codesMade, minted>>
  /\ step' = Did("fetch")
  /\ effects' = <<>>
  /\ UNCHANGED <<upVars, supVars, trace, authVars, ws, regVars, inflight, logVars, consume, now, replayed>>

\* POST /pair/consume up to await req.json(); body is the code of the body
ConsumeBegin(r, body) ==
  /\ consume[r].pc = "idle"
  /\ pairCodes' = prunePairCodes(pairCodes)
  /\ consume' = [consume EXCEPT ![r] = [IdleReq EXCEPT !.pc = "json", !.code = body]]
  /\ step' = Did("fetch")
  /\ effects' = <<>>
  /\ UNCHANGED <<upVars, supVars, trace, authVars, ws, regVars, inflight, logVars, codesMade, minted, now,
                 resp, replayed>>

\* how many /pair/consume requests have been answered
Answered == Cardinality({r \in DOMAIN consume : consume[r].pc = "done"})

\* the answer of /pair/consume
Answer(r, status, token, error) ==
  [consume EXCEPT ![r] = [pc |-> "done", code |-> consume[r].code, status |-> status,
                          token |-> token, error |-> error, at |-> Answered + 1,
                          ts |-> now, epoch |-> tokensMade]]

\* POST /pair/consume without its own test of the expiry
ConsumeFinish_noExpiry(r) ==
  /\ consume[r].pc = "json"
  /\ LET code == upperTrim(consume[r].code) IN
     IF code = "" THEN
       /\ consume' = Answer(r, 400, <<>>, "code is required")
       /\ pairCodes' = pairCodes
     ELSE IF code \notin DOMAIN pairCodes THEN
       /\ consume' = Answer(r, 400, <<>>, "invalid or expired code")
       /\ pairCodes' = pairCodes
     ELSE
       /\ consume' = Answer(r, 200, pairCodes[code].token, "")
       /\ pairCodes' = MapDel(pairCodes, code)
  /\ step' = Did("fetch")
  /\ effects' = <<>>
  /\ UNCHANGED <<upVars, supVars, trace, authVars, ws, regVars, inflight, logVars, codesMade,
                 minted, now, resp, replayed>>

\* POST /pair/consume that leaves a consumed code in the store
ConsumeFinish_noDelete(r) ==
  /\ consume[r].pc = "json"
  /\ LET code == upperTrim(consume[r].code) IN
     IF code = "" THEN
       /\ consume' = Answer(r, 400, <<>>, "code is required")
       /\ pairCodes' = pairCodes
     ELSE IF code \notin DOMAIN pairCodes THEN
       /\ consume' = Answer(r, 400, <<>>, "invalid or expired code")
       /\ pairCodes' = pairCodes
     ELSE IF DateNow > pairCodes[code].expiresAt THEN
       /\ consume' = Answer(r, 400, <<>>, "invalid or expired code")
       /\ pairCodes' = MapDel(pairCodes, code)
     ELSE
       /\ consume' = Answer(r, 200, pairCodes[code].token, "")
       /\ pairCodes' = pairCodes
  /\ step' = Did("fetch")
  /\ effects' = <<>>
  /\ UNCHANGED <<upVars, supVars, trace, authVars, ws, regVars, inflight, logVars, codesMade, minted, now,
                 resp, replayed>>

\* POST /pair/consume from the await to its end
ConsumeFinish(r) ==
  /\ consume[r].pc = "json"
  /\ LET code == upperTrim(consume[r].code) IN
     IF code = "" THEN
       /\ consume' = Answer(r, 400, <<>>, "code is required")
       /\ pairCodes' = pairCodes
     ELSE IF code \notin DOMAIN pairCodes THEN
       /\ consume' = Answer(r, 400, <<>>, "invalid or expired code")
       /\ pairCodes' = pairCodes
     ELSE IF DateNow > pairCodes[code].expiresAt THEN
       /\ consume' = Answer(r, 400, <<>>, "invalid or expired code")
       /\ pairCodes' = MapDel(pairCodes, code)
     ELSE
       /\ consume' = Answer(r, 200, pairCodes[code].token, "")
       /\ pairCodes' = MapDel(pairCodes, code)
  /\ step' = Did("fetch")
  /\ effects' = <<>>
  /\ UNCHANGED <<upVars, supVars, trace, authVars, ws, regVars, inflight, logVars, codesMade, minted, now,
                 resp, replayed>>

(***************************************************************************)
(* Event log: retention and replay.  Table events is keyed by its          *)
(* AUTOINCREMENT id; the sequence events holds its rows in id order.       *)
(***************************************************************************)
DB_RETENTION_DAYS == 14
DaySec == 86400
LIMIT_MAX == 5000

\* a sweep without its test of the retention days
pruneOldEvents_always(days, rows) ==
  LET cutoff == now - days * DaySec
      kept(r) == ~(r.created_at < cutoff)
  IN SelectSeq(rows, kept)

\* pruneOldEvents: DELETE FROM events WHERE created_at < cutoff; days is the
\* value of DB_RETENTION_DAYS the process was started with
pruneOldEvents(days, rows) ==
  IF days <= 0 THEN rows
  ELSE LET cutoff == now - days * DaySec
           kept(r) == ~(r.created_at < cutoff)
       IN SelectSeq(rows, kept)

\* setInterval(pruneOldEvents, 6 h)
PruneOld(days) ==
  /\ events' = pruneOldEvents(days, events)
  /\ step' = Did("prune")
  /\ effects' = <<>>
  /\ UNCHANGED <<upVars, supVars, authVars, ws, regVars, inflight, seq, pairVars, now, resp, replayed>>

\* the strings /^[0-9]+$/ matches, among the limit strings of the model, and
\* the Number() of each
DigitStrings ==
  ("0" :> 0) @@ ("1" :> 1) @@ ("2" :> 2) @@ ("007" :> 7) @@ ("5001" :> 5001)
Min(a, b) == IF a < b THEN a ELSE b
Max(a, b) == IF a > b THEN a ELSE b

\* limitRaw && /^[0-9]+$/.test(limitRaw)
\*   ? Math.max(0, Math.min(5000, Number(limitRaw))) : null
parseLimit(limitRaw) ==
  IF limitRaw # Null /\ limitRaw.s # "" /\ limitRaw.s \in DOMAIN DigitStrings
  THEN Num(Max(0, Min(LIMIT_MAX, DigitStrings[limitRaw.s])))
  ELSE Null

\* (order || "asc").toLowerCase() === "desc" ? "DESC" : "ASC"
parseOrder(orderRaw) ==
  IF orderRaw # Null /\ orderRaw.s \in {"desc", "DESC", "Desc"} THEN "DESC" ELSE "ASC"

Reverse(q) == [i \in 1..Len(q) |-> q[Len(q) + 1 - i]]

\* the SELECT without its WHERE clause
Select_anyThread(threadId, order, limit) ==
  LET ord == IF order = "DESC" THEN Reverse(events) ELSE events
  IN IF limit = Null THEN ord ELSE SubSeq(ord, 1, Min(limit.n, Len(ord)))

\* the SELECT with ORDER BY id ASC whatever the order asked for
Select_ascOnly(threadId, order, limit) ==
  LET ofThread(r) == r.thread_id = threadId
      asc == SelectSeq(events, ofThread)
  IN IF limit = Null THEN asc ELSE SubSeq(asc, 1, Min(limit.n, Len(asc)))

\* SELECT payload FROM events WHERE thread_id = ? ORDER BY id <order> [LIMIT ?]
Select(threadId, order, limit) ==
  LET ofThread(r) == r.thread_id = threadId
      asc == SelectSeq(events, ofThread)
      ord == IF order = "DESC" THEN Reverse(asc) ELSE asc
  IN IF limit = Null THEN ord ELSE SubSeq(ord, 1, Min(limit.n, Len(ord)))

\* GET /threads/<seg>/events?limit=<limitRaw>&order=<orderRaw>; dbOk is
\* whether the query succeeds
Replay(req, seg, limitRaw, orderRaw, dbOk) ==
  /\ IF ~authorised(req) THEN
       /\ resp' = Resp("/threads/:id/events", req, 401)
       /\ replayed' = NoReplay
     ELSE IF seg = "" THEN
       /\ resp' = Resp("/threads/:id/events", req, 404)
       /\ replayed' = NoReplay
     ELSE IF ~dbOk THEN
       /\ resp' = Resp("/threads/:id/events", req, 500)
       /\ replayed' = NoReplay
     ELSE
       /\ resp' = Resp("/threads/:id/events", req, 200)
       /\ replayed' = [thread |-> seg, limitRaw |-> limitRaw, orderRaw |-> orderRaw,
                       rows |-> Select(seg, parseOrder(orderRaw), parseLimit(limitRaw))]
  /\ step' = Did("replay")
  /\ effects' = <<>>
  /\ UNCHANGED <<upVars, supVars, trace, authVars, ws, regVars, inflight, logVars, pairVars, now>>

(***************************************************************************)
(* Supervisor of the anchor child process.  procs lists the processes      *)
(* spawned; anchorProc is NoProc or the index of one of them.              *)
(***************************************************************************)
\* Boolean(anchorProc && anchorProc.exitCode === null)
isAnchorRunning == anchorProc # NoProc /\ procs[anchorProc].exitCode = Null

\* the subprocess Bun.spawn returns: running, given the secret of the moment
\* as ZANE_ANCHOR_JWT_SECRET, its exited promise unsettled
Spawned == [exitCode |-> Null, secret |-> AUTH_TOKEN, signalled |-> FALSE,
            thenRan |-> FALSE]

\* startAnchor without its isAnchorRunning() test
startAnchor_respawn(spawnOk) ==
  IF spawnOk
  THEN [ok |-> TRUE, anchorProc |-> Len(procs) + 1, procs |-> Append(procs, Spawned)]
  ELSE [ok |-> FALSE, anchorProc |-> anchorProc, procs |-> procs]

\* startAnchor(): its result and the supervisor state it leaves; spawnOk is
\* whether mkdirSync and Bun.spawn return without throwing
startAnchor(spawnOk) ==
  IF isAnchorRunning
  THEN [ok |-> TRUE, anchorProc |-> anchorProc, procs |-> procs]
  ELSE IF spawnOk
  THEN [ok |-> TRUE, anchorProc |-> Len(procs) + 1, procs |-> Append(procs, Spawned)]
  ELSE [ok |-> FALSE, anchorProc |-> anchorProc, procs |-> procs]

\* stopAnchor(); killOk is whether kill("SIGTERM") returns without throwing
stopAnchor(killOk) ==
  IF ~isAnchorRunning
  THEN [ok |-> TRUE, anchorProc |-> anchorProc, procs |-> procs]
  ELSE IF killOk
  THEN [ok |-> TRUE, anchorProc |-> NoProc,
        procs |-> [procs EXCEPT ![anchorProc].signalled = TRUE]]
  ELSE [ok |-> FALSE, anchorProc |-> anchorProc, procs |-> procs]

\* POST /admin/anchor/start; cap bounds the processes spawned.  The step
\* records in its last field whether a spawn would have succeeded.
StartAnchor(req, spawnOk, cap) ==
  /\ IF ~authorised(req) THEN
       /\ resp' = RespOf("/admin/anchor/start", <<>>, req, 401, "Unauthorised")
       /\ UNCHANGED supVars
     ELSE
       /\ Len(startAnchor(spawnOk).procs) <= cap
       /\ anchorProc' = startAnchor(spawnOk).anchorProc
       /\ procs' = startAnchor(spawnOk).procs
       /\ resp' = RespOf("/admin/anchor/start", <<>>, req,
                         IF startAnchor(spawnOk).ok THEN 200 ELSE 500,
                         IF startAnchor(spawnOk).ok THEN "ok" ELSE "error")
  /\ step' = Step("fetch", "", 0, spawnOk)
  /\ effects' = <<>>
  /\ UNCHANGED <<upVars, trace, authVars, ws, regVars, inflight, logVars, pairVars, now,
                 replayed>>

\* POST /admin/anchor/stop
StopAnchor(req, killOk) ==
  /\ IF ~authorised(req) THEN
       /\ resp' = RespOf("/admin/anchor/stop", <<>>, req, 401, "Unauthorised")
       /\ UNCHANGED supVars
     ELSE
       /\ anchorProc' = stopAnchor(killOk).anchorProc
       /\ procs' = stopAnchor(killOk).procs
       /\ resp' = RespOf("/admin/anchor/stop", <<>>, req,
                         IF stopAnchor(killOk).ok THEN 200 ELSE 500,
                         IF stopAnchor(killOk).ok THEN "ok" ELSE "error")
  /\ step' = Did("fetch")
  /\ effects' = <<>>
  /\ UNCHANGED <<upVars, trace, authVars, ws, regVars, inflight, logVars, pairVars, now,
                 replayed>>

\* if (AUTOSTART_ANCHOR) startAnchor(), at the end of start-up
Autostart(spawnOk) ==
  /\ step = NoStep
  /\ anchorProc' = startAnchor(spawnOk).anchorProc
  /\ procs' = startAnchor(spawnOk).procs
  /\ step' = Did("autostart")
  /\ effects' = <<>>
  /\ UNCHANGED <<upVars, trace, authVars, ws, regVars, inflight, logVars, pairVars, now,
                 resp, replayed>>

\* the child p exits, on a signal or by itself: its exitCode is set
ChildExit(p) ==
  /\ p \in DOMAIN procs
  /\ procs[p].exitCode = Null
  /\ procs' = [procs EXCEPT ![p].exitCode = Num(0)]
  /\ step' = Did("exit")
  /\ effects' = <<>>
  /\ UNCHANGED <<anchorProc, upVars, trace, authVars, ws, regVars, inflight, logVars,
                 pairVars, now, resp, replayed>>

\* an exited callback that spawns a replacement for the child p
ExitedThen_respawn(p) ==
  /\ p \in DOMAIN procs
  /\ procs[p].exitCode # Null
  /\ ~procs[p].thenRan
  /\ procs' = Append([procs EXCEPT ![p].thenRan = TRUE], Spawned)
  /\ anchorProc' = Len(procs) + 1
  /\ step' = Did("exited")
  /\ effects' = <<>>
  /\ UNCHANGED <<upVars, trace, authVars, ws, regVars, inflight, logVars, pairVars, now,
                 resp, replayed>>

\* anchorProc.exited.then(() => { anchorProc = null; }) of the child p
ExitedThen(p) ==
  /\ p \in DOMAIN procs
  /\ procs[p].exitCode # Null
  /\ ~procs[p].thenRan
  /\ procs' = [procs EXCEPT ![p].thenRan = TRUE]
  /\ anchorProc' = NoProc
  /\ step' = Did("exited")
  /\ effects' = <<>>
  /\ UNCHANGED <<upVars, trace, authVars, ws, regVars, inflight, logVars, pairVars, now,
                 resp, replayed>>

\* GET /admin/status
AdminStatus(req) ==
  /\ resp' = RespOf("/admin/status", <<>>, req, IF authorised(req) THEN 200 ELSE 401,
                    IF ~authorised(req) THEN "Unauthorised"
                    ELSE IF isAnchorRunning THEN "running" ELSE "stopped")
  /\ step' = Did("fetch")
  /\ effects' = <<>>
  /\ UNCHANGED <<upVars, supVars, trace, authVars, ws, regVars, inflight, logVars, pairVars,
                 now, replayed>>

(***************************************************************************)
(* Uploads: POST /uploads/new, PUT /uploads/:token, GET /u/:token          *)
(***************************************************************************)
UPLOAD_RETENTION_DAYS == 0
UPLOAD_MAX_BYTES == 26214400
UPLOAD_URL_TTL_SEC == 604800

\* Math.floor(Date.now() / 1000)
nowSec == now

\* mime.toLowerCase() mapped to a file extension; the model's MIME types are
\* in lower case
safeExtFromMime(mime) ==
  CASE mime \in {"image/jpeg", "image/jpg"} -> "jpg"
    [] mime = "image/png" -> "png"
    [] mime = "image/webp" -> "webp"
    [] mime = "image/gif" -> "gif"
    [] mime = "image/svg+xml" -> "svg"
    [] OTHER -> "bin"

\* the lifetime of an upload token: the retention period, or ten years when
\* retention is disabled, and at least UPLOAD_URL_TTL_SEC
uploadTtl ==
  Max(IF UPLOAD_RETENTION_DAYS > 0 THEN UPLOAD_RETENTION_DAYS * 24 * 60 * 60
      ELSE 10 * 365 * 24 * 60 * 60,
      UPLOAD_URL_TTL_SEC)

\* the row logAdmin inserts; its message is no relayed envelope
logAdmin(dbOk) ==
  IF ~dbOk THEN <<>>
  ELSE <<[id |-> seq + 1, thread_id |-> "admin", turn_id |-> Null,
          direction |-> "server", role |-> "client", method |-> Str("admin.log"),
          payload |-> [ts |-> now, direction |-> "admin", message |-> 0],
          created_at |-> now]>>

\* a request suspended at its await: the route, the credentials it came with
\* and the upload_tokens row it read before suspending
Awaiting(op, seg, req, rec) == [op |-> op, seg |-> seg, req |-> req, rec |-> rec]
NoRec == [token |-> <<>>, path |-> [name |-> <<>>, ext |-> ""], mime |-> "", bytes |-> 0,
          created_at |-> 0, expires_at |-> 0]

\* POST /uploads/new up to `await req.json()`
UploadNewBegin(req) ==
  /\ IF ~authorised(req) THEN
       /\ resp' = RespOf("/uploads/new", <<>>, req, 401, "Unauthorised")
       /\ UNCHANGED awaiting
     ELSE
       /\ awaiting' = awaiting \cup {Awaiting("new", <<>>, req, NoRec)}
       /\ UNCHANGED resp
  /\ step' = Did("fetch")
  /\ effects' = <<>>
  /\ UNCHANGED <<uploadTokens, files, uploadsMade, supVars, trace, authVars, ws, regVars,
                 inflight, logVars, pairVars, now, replayed>>

\* POST /uploads/new from the parsed body on: mimeRaw is body.mime, bytes is
\* Number(body.bytes ?? 0), and cap bounds the tokens drawn
UploadNewFinish(a, mimeRaw, bytes, dbOk, cap) ==
  /\ a \in awaiting
  /\ a.op = "new"
  /\ awaiting' = awaiting \ {a}
  /\ LET mime == IF trim(Coalesce(mimeRaw, Str("")).s) = "" THEN "application/octet-stream"
                 ELSE trim(Coalesce(mimeRaw, Str("")).s)
         token == randomTokenHex(uploadsMade)
         filePath == [name |-> token, ext |-> safeExtFromMime(mime)]
         createdAt == nowSec
         expiresAt == createdAt + uploadTtl
     IN IF bytes <= 0 THEN
          /\ resp' = RespOf("/uploads/new", <<>>, a.req, 400, "bytes is required")
          /\ UNCHANGED <<uploadTokens, uploadsMade>>
        ELSE IF bytes > UPLOAD_MAX_BYTES THEN
          /\ resp' = RespOf("/uploads/new", <<>>, a.req, 413, "file too large")
          /\ UNCHANGED <<uploadTokens, uploadsMade>>
        ELSE
          /\ uploadsMade < cap
          /\ uploadsMade' = uploadsMade + 1
          /\ IF dbOk THEN
               /\ uploadTokens' =
                    MapSet(uploadTokens, token,
                           [token |-> token, path |-> filePath, mime |-> mime,
                            bytes |-> bytes, created_at |-> createdAt,
                            expires_at |-> expiresAt])
               /\ resp' = RespOf("/uploads/new", token, a.req, 200, "token")
             ELSE
               /\ resp' = RespOf("/uploads/new", <<>>, a.req, 500,
                                 "failed to create upload token")
               /\ UNCHANGED uploadTokens
  /\ step' = Did("fetch")
  /\ effects' = <<>>
  /\ UNCHANGED <<files, supVars, trace, authVars, ws, regVars, inflight, logVars, pairVars,
                 now, replayed>>

\* PUT /uploads/:token without its content-type check
ctMatches_unchecked(ctRaw, rec) == TRUE

\* (req.headers.get("content-type") ?? "").trim() || rec.mime, compared with
\* rec.mime: whether the request passes the content-type check
ctMatches(ctRaw, rec) ==
  LET ct == IF trim(Coalesce(ctRaw, Str("")).s) = "" THEN rec.mime
            ELSE trim(Coalesce(ctRaw, Str("")).s)
  IN ~(ct # "" /\ rec.mime # "" /\ ct # rec.mime)

\* PUT /uploads/:token up to `await req.arrayBuffer()`: seg is the token of
\* the path and ctRaw the content-type header
UploadPutBegin(req, seg, ctRaw) ==
  /\ IF ~authorised(req) THEN
       /\ resp' = RespOf("PUT /uploads/:token", seg, req, 401, "Unauthorised")
       /\ UNCHANGED <<uploadTokens, awaiting>>
     ELSE IF seg = <<>> THEN
       /\ resp' = RespOf("PUT /uploads/:token", seg, req, 404, "Not found")
       /\ UNCHANGED <<uploadTokens, awaiting>>
     ELSE IF seg \notin DOMAIN uploadTokens THEN
       /\ resp' = RespOf("PUT /uploads/:token", seg, req, 400, "invalid upload token")
       /\ UNCHANGED <<uploadTokens, awaiting>>
     ELSE IF nowSec > uploadTokens[seg].expires_at THEN
       /\ uploadTokens' = MapDel(uploadTokens, seg)
       /\ resp' = RespOf("PUT /uploads/:token", seg, req, 400, "upload token expired")
       /\ UNCHANGED awaiting
     ELSE IF ~ctMatches(ctRaw, uploadTokens[seg]) THEN
       /\ resp' = RespOf("PUT /uploads/:token", seg, req, 400, "content-type mismatch")
       /\ UNCHANGED <<uploadTokens, awaiting>>
     ELSE
       /\ awaiting' = awaiting \cup {Awaiting("put", seg, req, uploadTokens[seg])
                                       @@ [ct |-> ctRaw]}
       /\ UNCHANGED <<uploadTokens, resp>>
  /\ step' = Did("fetch")
  /\ effects' = <<>>
  /\ UNCHANGED <<files, uploadsMade, supVars, trace, authVars, ws, regVars, inflight,
                 logVars, pairVars, now, replayed>>

\* PUT /uploads/:token from the received body on: size is buf.byteLength,
\* writeOk whether Bun.write succeeds, and cap bounds the rows of the log
UploadPutFinish(a, size, writeOk, dbOk, cap) ==
  /\ a \in awaiting
  /\ a.op = "put"
  /\ awaiting' = awaiting \ {a}
  /\ IF size > UPLOAD_MAX_BYTES THEN
       /\ resp' = RespOf("PUT /uploads/:token", a.seg, a.req, 413, "file too large")
       /\ UNCHANGED <<files, logVars>>
     ELSE IF ~writeOk THEN
       /\ resp' = RespOf("PUT /uploads/:token", a.seg, a.req, 500, "failed to write upload")
       /\ UNCHANGED <<files, logVars>>
     ELSE
       /\ logAdmin(dbOk) # <<>> => seq < cap
       /\ files' = MapSet(files, a.rec.path, [bytes |-> size, ct |-> a.ct])
       /\ events' = events \o logAdmin(dbOk)
       /\ seq' = seq + Len(logAdmin(dbOk))
       /\ resp' = RespOf("PUT /uploads/:token", a.seg, a.req, 200, "ok")
  /\ step' = Did("fetch")
  /\ effects' = <<>>
  /\ UNCHANGED <<uploadTokens, uploadsMade, supVars, trace, authVars, ws, regVars, inflight,
                 pairVars, now, replayed>>

\* GET /u/:token up to `await file.exists()`; the route checks no credentials
UploadReadBegin(req, seg) ==
  /\ IF seg = <<>> THEN
       /\ resp' = RespOf("GET /u/:token", seg, req, 404, "Not found")
       /\ UNCHANGED <<uploadTokens, awaiting>>
     ELSE IF seg \notin DOMAIN uploadTokens THEN
       /\ resp' = RespOf("GET /u/:token", seg, req, 404, "Not found")
       /\ UNCHANGED <<uploadTokens, awaiting>>
     ELSE IF nowSec > uploadTokens[seg].expires_at THEN
       /\ uploadTokens' = MapDel(uploadTokens, seg)
       /\ resp' = RespOf("GET /u/:token", seg, req, 404, "Not found")
       /\ UNCHANGED awaiting
     ELSE
       /\ awaiting' = awaiting \cup {Awaiting("read", seg, req, uploadTokens[seg])}
       /\ UNCHANGED <<uploadTokens, resp>>
  /\ step' = Did("fetch")
  /\ effects' = <<>>
  /\ UNCHANGED <<files, uploadsMade, supVars, trace, authVars, ws, regVars, inflight,
                 logVars, pairVars, now, replayed>>

\* GET /u/:token from the answer of file.exists() on: the file is served with
\* the MIME type of the row
UploadReadFinish(a) ==
  /\ a \in awaiting
  /\ a.op = "read"
  /\ awaiting' = awaiting \ {a}
  /\ IF a.rec.path \notin DOMAIN files THEN
       resp' = RespOf("GET /u/:token", a.seg, a.req, 404, "Not found")
     ELSE
       resp' = RespOf("GET /u/:token", a.seg, a.req, 200, "file")
  /\ step' = Did("fetch")
  /\ effects' = <<>>
  /\ UNCHANGED <<uploadTokens, files, uploadsMade, supVars, trace, authVars, ws, regVars,
                 inflight, logVars, pairVars, now, replayed>>

\* DELETE FROM upload_tokens WHERE expires_at < nowSec(), on its timer
pruneExpiredUploadTokens ==
  /\ uploadTokens' = [t \in {x \in DOMAIN uploadTokens :
                               ~(uploadTokens[x].expires_at < nowSec)} |-> uploadTokens[t]]
  /\ step' = Did("timer")
  /\ effects' = <<>>
  /\ UNCHANGED <<files, awaiting, uploadsMade, supVars, trace, authVars, ws, regVars,
                 inflight, logVars, pairVars, now, resp, replayed>>

(***************************************************************************)
(* Restart of the relay process                                            *)
(***************************************************************************)
\* the token of the environment (ZANE_LOCAL_TOKEN): the first secret
EnvToken == randomTokenHex(0)

\* tokenFromConfigJson(loadConfigJson()) ?? AUTH_TOKEN at start-up: the token
\* of the config file when it holds one, else the token of the environment
loadedToken == IF config # <<>> THEN config ELSE EnvToken

\* The process ends and starts again: memory is lost, the database, the
\* upload directory and the config file stay, and the sweeps of start-up run.
Restart ==
  /\ AUTH_TOKEN' = loadedToken
  /\ ws' = [s \in Sock |-> NoWs]
  /\ clientSockets' = EmptyMap
  /\ anchorSockets' = EmptyMap
  /\ threadToClients' = EmptyMap
  /\ threadToAnchors' = EmptyMap
  /\ anchorMeta' = EmptyMap
  /\ inflight' = <<>>
  /\ pairCodes' = EmptyMap
  /\ consume' = [r \in DOMAIN consume |->
                   IF consume[r].pc = "json" THEN IdleReq ELSE consume[r]]
  /\ awaiting' = {}
  /\ anchorProc' = NoProc
  /\ events' = pruneOldEvents(DB_RETENTION_DAYS, events)
  /\ uploadTokens' = [t \in {x \in DOMAIN uploadTokens :
                               ~(uploadTokens[x].expires_at < nowSec)} |-> uploadTokens[t]]
  /\ step' = Did("restart")
  /\ effects' = <<>>
  /\ UNCHANGED <<tokensMade, config, seq, codesMade, minted, now, resp, replayed, files,
                 uploadsMade, procs, trace>>

(***************************************************************************)
(* Spec: connections, subscriptions and routing in both directions under   *)
(* one unchanging token.  Anchors connect without a stable id, and the     *)
(* database accepts every insert.                                          *)
(***************************************************************************)
\* the UI and the anchor present the token as ?token=
TokenReq == [auth |-> NoHeader, token |-> Param(AUTH_TOKEN)]

\* the texts the sockets send: 1 and 2 carry t1 and t2, 4 no thread id, 6 is
\* a replay of t1, 8 is no JSON, 9 a ping, 10 and 11 subscribe to t1 and t2
RouteTexts == {1, 2, 4, 6, 8, 9, 10, 11}

UpgradeClient == \E s \in Clients : Upgrade(s, "/ws/client", "", TokenReq)
UpgradeAnchor == \E s \in Anchors : Upgrade(s, "/ws/anchor", "", TokenReq)
WsOpen == \E s \in Sock : Open(s)
WsClose == \E s \in Sock : Close(s)
WsPing ==
  /\ \E s \in Sock, text \in RouteTexts : Ping(s, text)
  /\ UNCHANGED trace
WsOrbit ==
  /\ \E s \in Sock, text \in RouteTexts : Orbit(s, text)
  /\ UNCHANGED trace
WsRelayClient ==
  /\ \E s \in Sock, text \in RouteTexts : RelayClient(s, text, TRUE, MaxEvents)
  /\ UNCHANGED trace
WsRelayAnchor ==
  /\ \E s \in Sock, text \in RouteTexts : RelayAnchor(s, text, MaxInflight)
  /\ UNCHANGED trace
WsRelayResume ==
  /\ \E i \in 1..MaxInflight, titled \in BOOLEAN : RelayResume(i, titled, TRUE, MaxEvents)
  /\ UNCHANGED trace

Next ==
  \/ UpgradeClient
  \/ UpgradeAnchor
  \/ WsOpen
  \/ WsClose
  \/ WsPing
  \/ WsOrbit
  \/ WsRelayClient
  \/ WsRelayAnchor
  \/ WsRelayResume

Spec == Init /\ [][Next]_vars

(***************************************************************************)
(* Routing properties (under Spec)                                         *)
(***************************************************************************)
\* the sockets send() was called on in the last step, and how often
SendsTo(x) == {i \in DOMAIN effects : effects[i].op = "send" /\ effects[i].to = x}
Receivers == {effects[i].to : i \in {j \in DOMAIN effects : effects[j].op = "send"}}

\* the last step was relay() routing a parsed envelope sent by role
Routed(role) ==
  /\ step.h = "relay"
  /\ step.role = role
  /\ parseJsonMessage(step.text) # Null

\* every send of the last step carried the routed text, once per receiver
OncePerReceiver ==
  /\ \A i \in DOMAIN effects : effects[i].op = "send" => effects[i].text = step.text
  /\ \A x \in Receivers : Cardinality(SendsTo(x)) = 1

\* the sockets of a role whose own subscription set holds thread T
SubscribedAnchors(T) == {a \in DOMAIN anchorSockets : T \in anchorSockets[a]}

\* C1: when a client's envelope carries thread id T and some anchor socket is
\* subscribed to T, send() is called exactly on the anchor sockets subscribed
\* to T, once each with that envelope: on no other anchor and on no client.
C1_RoutingCompleteness ==
  (Routed("client") /\ threadIdOf[step.text] # Null
     /\ SubscribedAnchors(threadIdOf[step.text].s) # {})
  => /\ Receivers = SubscribedAnchors(threadIdOf[step.text].s)
     /\ OncePerReceiver

\* a client's envelope for T was routed while one registered anchor was
\* subscribed to T and another registered anchor was not
C1_Witness ==
  /\ Routed("client") /\ threadIdOf[step.text] # Null
  /\ SubscribedAnchors(threadIdOf[step.text].s) # {}
  /\ DOMAIN anchorSockets \ SubscribedAnchors(threadIdOf[step.text].s) # {}
  /\ DOMAIN clientSockets # {}

\* C2: when a client's envelope carries thread id T and no anchor socket is
\* subscribed to T, send() is called on every registered anchor socket, once
\* each with that envelope.
C2_DiscoveryFallback ==
  (Routed("client") /\ threadIdOf[step.text] # Null
     /\ SubscribedAnchors(threadIdOf[step.text].s) = {})
  => /\ Receivers = DOMAIN anchorSockets
     /\ OncePerReceiver

\* a client's envelope for T was routed while two anchors were registered,
\* none subscribed to T and one subscribed to another thread
C2_Witness ==
  /\ Routed("client") /\ threadIdOf[step.text] # Null
  /\ SubscribedAnchors(threadIdOf[step.text].s) = {}
  /\ Cardinality(DOMAIN anchorSockets) >= 2
  /\ \E a \in DOMAIN anchorSockets : anchorSockets[a] # {}
  /\ Receivers = DOMAIN anchorSockets

\* the last step wrote the record of its envelope before any send: the first
\* effect is the insert, and the newest row is the envelope's, under its thread
LoggedFirst ==
  /\ effects # <<>>
  /\ effects[1] = Logged(step.text)
  /\ events # <<>>
  /\ events[Len(events)].id = seq
  /\ events[Len(events)].thread_id = threadIdOf[step.text].s
  /\ events[Len(events)].payload.message = step.text

\* C3 as claimed: every routed envelope with an extractable thread id is
\* recorded under that thread in the routing step, before the first delivery.
C3_LoggedBeforeDelivery_Claimed ==
  (step.h = "relay" /\ parseJsonMessage(step.text) # Null
     /\ threadIdOf[step.text] # Null)
  => LoggedFirst

\* C3 amended: every routed envelope with an extractable thread id that is
\* not marked _replay is, when the insert succeeds, recorded under that thread
\* in the routing step, before the first delivery.
C3_LoggedBeforeDelivery ==
  (step.h = "relay" /\ parseJsonMessage(step.text) # Null
     /\ threadIdOf[step.text] # Null
     /\ ~parseJsonMessage(step.text).replay /\ step.dbOk)
  => LoggedFirst

\* an anchor's envelope with a thread id was recorded and then delivered
C3_Witness ==
  /\ Routed("anchor") /\ threadIdOf[step.text] # Null
  /\ LoggedFirst
  /\ Len(effects) >= 2

\* C4: no row of the event log belongs to an envelope without an extractable
\* thread id, and routing such an envelope inserts nothing.
C4_NoThreadNeverLogged ==
  /\ \A i \in DOMAIN events :
       /\ threadIdOf[events[i].payload.message] # Null
       /\ events[i].thread_id = threadIdOf[events[i].payload.message].s
  /\ (step.h = "relay" /\ threadIdOf[step.text] = Null)
     => \A i \in DOMAIN effects : effects[i].op # "log"

\* an envelope without a thread id was routed and delivered, the log being
\* open for rows
C4_Witness ==
  /\ step.h = "relay" /\ parseJsonMessage(step.text) # Null
  /\ threadIdOf[step.text] = Null
  /\ Receivers # {}
  /\ seq < MaxEvents

\* C5: an application envelope without an extractable thread id is sent to
\* every registered socket of the role opposite to the sender's, once each,
\* and to no socket of the sender's role.
C5_NoThreadBroadcast ==
  /\ (Routed("client") /\ threadIdOf[step.text] = Null)
     => /\ Receivers = DOMAIN anchorSockets
        /\ Receivers \cap DOMAIN clientSockets = {}
        /\ OncePerReceiver
  /\ (Routed("anchor") /\ threadIdOf[step.text] = Null)
     => /\ Receivers = DOMAIN clientSockets
        /\ Receivers \cap DOMAIN anchorSockets = {}
        /\ OncePerReceiver

\* an anchor's envelope without a thread id was routed while a client and two
\* anchors were registered
C5_Witness ==
  /\ Routed("anchor") /\ threadIdOf[step.text] = Null
  /\ DOMAIN clientSockets # {}
  /\ Cardinality(DOMAIN anchorSockets) >= 2
  /\ Receivers = DOMAIN clientSockets

(***************************************************************************)
(* SpecPair: pairing codes minted, consumed by concurrent requests, expired*)
(* by the clock and dropped by a rotation of the token.                    *)
(***************************************************************************)
\* the codes the /pair/consume bodies carry: none, one never minted, the
\* first code as minted and in lower case, and the second code
ReqCodes == {"", "ZZ9", "AB2", "ab2", "CD3"}

PairMint == \E req \in {TokenReq, NoReq} : PairNew(req)
\* a request carries a code that was minted or one that never is: codes are
\* random, none is guessed before it is minted
Known(body) == upperTrim(body) \in DOMAIN minted \cup {"", "ZZ9"}
PairConsumeBegin ==
  \E r \in 1..NReq, body \in {b \in ReqCodes : Known(b)} : ConsumeBegin(r, body)
PairConsumeFinish == \E r \in 1..NReq : ConsumeFinish(r)
PairRotate == Rotate(TokenReq, TRUE)
PairTick == Tick(TickSec)

NextPair ==
  \/ PairMint
  \/ PairConsumeBegin
  \/ PairConsumeFinish
  \/ PruneTimer
  \/ PairTick
  \/ PairRotate

SpecPair == Init /\ [][NextPair]_vars

Done(r) == consume[r].pc = "done"
CodeOf(r) == upperTrim(consume[r].code)
Won(r) == Done(r) /\ consume[r].status = 200
EarlierWin(r) ==
  \E q \in DOMAIN consume : Won(q) /\ CodeOf(q) = CodeOf(r) /\ consume[q].at < consume[r].at

\* the code of r was, when r was answered, neither past the expiry its mint
\* announced nor minted under a token rotated since
Unexpired(r) ==
  /\ consume[r].ts * 1000 <= minted[CodeOf(r)].expiresAt
  /\ consume[r].epoch = minted[CodeOf(r)].epoch

\* C6: under every interleaving of concurrent /pair/consume requests, at most
\* one request per minted code is answered with the secret: the first answer
\* for an unexpired code carries the secret the code was minted under, and
\* every answer after it is the failure "invalid or expired code".
C6_SingleUse ==
  /\ \A c \in DOMAIN minted :
       Cardinality({r \in DOMAIN consume : Won(r) /\ CodeOf(r) = c}) <= 1
  /\ \A r \in DOMAIN consume :
       (Done(r) /\ CodeOf(r) \in DOMAIN minted) =>
         /\ EarlierWin(r) =>
              /\ consume[r].status = 400
              /\ consume[r].error = "invalid or expired code"
         /\ (~EarlierWin(r) /\ Unexpired(r)) =>
              /\ consume[r].status = 200
              /\ consume[r].token = minted[CodeOf(r)].token

\* two requests carried the same minted code, unexpired when each was
\* answered: one got the secret, the other the failure
C6_Witness ==
  \E r, q \in DOMAIN consume :
    /\ r # q /\ Done(r) /\ Done(q)
    /\ CodeOf(r) \in DOMAIN minted /\ CodeOf(q) = CodeOf(r)
    /\ Unexpired(r) /\ Unexpired(q)
    /\ Won(r) /\ consume[q].status = 400

\* the request r was answered as one naming a code that was never minted
AnsweredAsUnknown(r) ==
  /\ consume[r].status = 400
  /\ consume[r].error = "invalid or expired code"
  /\ consume[r].token = <<>>

\* the code of r was past its expiry when r was answered
ExpiredAtAnswer(r) ==
  /\ Done(r)
  /\ CodeOf(r) \in DOMAIN minted
  /\ consume[r].ts * 1000 > minted[CodeOf(r)].expiresAt

\* C17: a consume request answered after the expiry of its code gets the
\* failure "invalid or expired code", the answer for a code never minted,
\* whether the sweep has removed the code or the code is still stored.
C17_ExpiredNeverConsumable ==
  /\ \A r \in DOMAIN consume : ExpiredAtAnswer(r) => AnsweredAsUnknown(r)
  /\ \A r \in DOMAIN consume :
       (Done(r) /\ CodeOf(r) = "ZZ9") => AnsweredAsUnknown(r)

\* a request for a minted code was answered after the expiry of the code, and
\* another for a code never minted
C17_Witness ==
  \E r, q \in DOMAIN consume :
    /\ ExpiredAtAnswer(r)
    /\ consume[r].epoch = minted[CodeOf(r)].epoch
    /\ Done(q) /\ CodeOf(q) = "ZZ9"
    /\ consume[q].status = consume[r].status
    /\ consume[q].error = consume[r].error

\* the code of r was minted before a rotation that r was answered after
RotatedSinceMint(r) ==
  /\ Done(r)
  /\ CodeOf(r) \in DOMAIN minted
  /\ consume[r].epoch > minted[CodeOf(r)].epoch

\* C18: a rotation leaves no pairing code minted before it in the store, and
\* a consume request answered after the rotation for such a code fails.
C18_RotationRevokesCodes ==
  /\ \A c \in DOMAIN pairCodes : minted[c].epoch = tokensMade
  /\ \A r \in DOMAIN consume :
       RotatedSinceMint(r) => consume[r].status = 400 /\ consume[r].token = <<>>

\* a request for a code minted before the rotation, and not expired, was
\* answered after the rotation
C18_Witness ==
  \E r \in DOMAIN consume :
    /\ RotatedSinceMint(r)
    /\ consume[r].ts * 1000 <= minted[CodeOf(r)].expiresAt
    /\ consume[r].status = 400
    /\ pairCodes = EmptyMap

(***************************************************************************)
(* SpecRotate: one client and one anchor socket connect, with any          *)
(* credentials, while the token is rotated and guarded routes are called.  *)
(***************************************************************************)
RotSock == {1, NClients + 1}

\* the credentials a request can carry: every token drawn so far, a prefix
\* of a token, and the empty string
Creds == {randomTokenHex(k) : k \in 0..(tokensMade - 1)} \cup {<<0>>, <<>>}
AuthReqs ==
  {[auth |-> a, token |-> t] :
     a \in {NoHeader} \cup {Bearer(c) : c \in Creds} \cup {Basic(c) : c \in Creds},
     t \in {NoParam} \cup {Param(c) : c \in Creds}}

RotUpgradeClient ==
  \E s \in RotSock \cap Clients, path \in {"/ws", "/ws/client"}, req \in AuthReqs :
    Upgrade(s, path, "", req)
RotUpgradeAnchor ==
  \E s \in RotSock \cap Anchors, req \in AuthReqs : Upgrade(s, "/ws/anchor", "", req)
RotOpen == \E s \in RotSock : Open(s)
RotClose == \E s \in RotSock : Close(s)
RotRest == \E req \in AuthReqs : RestCall(req)
RotRotate == \E req \in AuthReqs : Rotate(req, TRUE)
RotRelay ==
  /\ \E s \in RotSock : RelayClient(s, 4, TRUE, MaxEvents)
  /\ UNCHANGED trace

NextRotate ==
  \/ RotUpgradeClient
  \/ RotUpgradeAnchor
  \/ RotOpen
  \/ RotClose
  \/ RotRest
  \/ RotRotate
  \/ RotRelay

SpecRotate == Init /\ [][NextRotate]_vars

\* the tokens AUTH_TOKEN held before the last rotation
OldTokens == {randomTokenHex(k) : k \in 0..(tokensMade - 2)}

Carried(req) ==
  (IF req.auth.scheme = "bearer" THEN {req.auth.cred} ELSE {}) \cup
  (IF req.token.present THEN {req.token.cred} ELSE {})
PresentsOnly(req, S) == Carried(req) # {} /\ Carried(req) \subseteq S

\* the last response answers a guarded REST call or a socket upgrade
Guarded == resp.path \in {"/admin/logs", "/ws", "/ws/client", "/ws/anchor"}

\* C8: once the token has been rotated, a guarded REST call or socket upgrade
\* that presents an old token is answered 401, and one that presents the new
\* token is accepted (200, or 101 for an upgrade).
C8_OldRejectedNewAccepted ==
  (Guarded /\ tokensMade > 1) =>
    /\ PresentsOnly(resp.req, OldTokens) => resp.status = 401
    /\ PresentsOnly(resp.req, {AUTH_TOKEN}) => resp.status \in {101, 200}

\* after a rotation a socket upgrade presented the old token and was refused
C8_Witness ==
  /\ tokensMade > 1
  /\ resp.path = "/ws/anchor"
  /\ PresentsOnly(resp.req, OldTokens)
  /\ resp.status = 401

\* the sockets of the registry
Registered == DOMAIN clientSockets \cup DOMAIN anchorSockets

\* the step answers an upgrade request with 401
UpgradeRefused ==
  /\ step'.h = "fetch"
  /\ resp'.path \in {"/ws", "/ws/client", "/ws/anchor"}
  /\ resp'.status = 401

\* C15: a socket comes into being only by an upgrade request that presents
\* the secret current at that moment, only such a socket is ever in the
\* registry, and only such a socket is ever sent anything; a refused upgrade
\* creates no socket and no registry entry and sends nothing.
C15_RegisteredWereAuthorised ==
  [][/\ \A s \in Sock :
          (ws[s].state = "none" /\ ws'[s].state # "none") =>
            /\ resp'.status = 101
            /\ authorised(resp'.req)
            /\ ws'[s].token = AUTH_TOKEN
     /\ \A s \in Registered' : ws'[s].state \in {"open", "closing"}
     /\ \A k \in DOMAIN effects' :
          effects'[k].op = "send" => ws'[effects'[k].to].state # "none"
     /\ UpgradeRefused =>
          ws' = ws /\ Registered' = Registered /\ effects' = <<>>]_vars

\* an anchor that presented the current secret is registered, and a client
\* upgrade presenting a wrong secret has just been refused, leaving no socket
C15_Witness ==
  /\ resp.path \in {"/ws", "/ws/client"}
  /\ resp.status = 401
  /\ PresentsOnly(resp.req, {<<0>>})
  /\ step.h = "fetch"
  /\ \E s \in DOMAIN anchorSockets : ws[s].state = "open" /\ ws[s].token = AUTH_TOKEN
  /\ \A s \in Clients : ws[s].state = "none" /\ s \notin Registered

(***************************************************************************)
(* SpecReplay: the relay starts on a database that holds more rows of      *)
(* thread t1 than a replay may return; a client adds rows, the retention   *)
(* sweep deletes old ones, and threads are replayed.                       *)
(***************************************************************************)
\* the rows of the database file at start-up: one of thread t2 among rows of
\* thread t1, written as logEvent writes them
StoredRows ==
  [i \in 1..(LIMIT_MAX + StoredExtra) |->
     [id |-> i, thread_id |-> IF i = 2 THEN "t2" ELSE "t1", turn_id |-> Null,
      direction |-> "client", role |-> "client", method |-> Str("turn/start"),
      payload |-> [ts |-> 0, direction |-> "client",
                   message |-> IF i = 2 THEN 2 ELSE 1],
      created_at |-> 0]]

InitStored == InitWith(StoredRows)

\* the thread of the path (t1, t2 or none) and the limit and order parameters
Segments == {"t1", "t2", ""}
LimitRaws == {Null, Str("2"), Str("5001")}
OrderRaws == {Null, Str("desc"), Str("DESC")}

RepUpgrade == \E s \in Clients : Upgrade(s, "/ws/client", "", TokenReq)
RepOpen == \E s \in Clients : Open(s)
RepRelay ==
  /\ \E s \in Clients, text \in {1, 2} : RelayClient(s, text, TRUE, LIMIT_MAX + StoredExtra + MaxRows)
  /\ UNCHANGED trace
RepReplay ==
  \E seg \in Segments, limitRaw \in LimitRaws, orderRaw \in OrderRaws :
    Replay(TokenReq, seg, limitRaw, orderRaw, TRUE)
RepDenied == Replay(NoReq, "t1", Null, Null, TRUE)

NextReplay ==
  \/ RepUpgrade
  \/ RepOpen
  \/ RepRelay
  \/ RepReplay
  \/ RepDenied

SpecReplay == InitStored /\ [][NextReplay]_vars

\* the last step answered a replay query with rows
Replayed == step.h = "replay" /\ resp.status = 200

\* the ids of the stored rows of thread T, and of the rows replayed
IdsOf(T) == {events[i].id : i \in {j \in DOMAIN events : events[j].thread_id = T}}
ReplayedIds == {replayed.rows[i].id : i \in DOMAIN replayed.rows}

Ascending(q) == \A i \in 1..(Len(q) - 1) : q[i].id < q[i + 1].id
Descending(q) == \A i \in 1..(Len(q) - 1) : q[i].id > q[i + 1].id

\* the query of the last step, as the claims name it: thread T, order,
\* numeric limit N, and the number M of stored rows of T
AscAsked == replayed.orderRaw \in {Null, Str("asc")}
DescAsked == replayed.orderRaw \in {Str("desc"), Str("DESC")}
LimitAsked == replayed.limitRaw # Null /\ replayed.limitRaw.s \in DOMAIN DigitStrings
AskedN == DigitStrings[replayed.limitRaw.s]
StoredM == Cardinality(IdsOf(replayed.thread))

\* C9: a replay of thread T with order asc and no limit returns every stored
\* row of thread T and no row of another thread, in strictly ascending id
\* order.
C9_AscReplayComplete ==
  (Replayed /\ AscAsked /\ replayed.limitRaw = Null) =>
    /\ {replayed.rows[i] : i \in DOMAIN replayed.rows} =
         {events[j] : j \in {k \in DOMAIN events : events[k].thread_id = replayed.thread}}
    /\ Ascending(replayed.rows)

\* thread t1 was replayed ascending without limit while it held rows on both
\* sides of a row of thread t2
C9_Witness ==
  /\ Replayed /\ AscAsked /\ replayed.limitRaw = Null
  /\ replayed.thread = "t1"
  /\ Len(replayed.rows) >= 2
  /\ \E j \in DOMAIN events :
       /\ events[j].thread_id # "t1"
       /\ replayed.rows[1].id < events[j].id
       /\ events[j].id < replayed.rows[Len(replayed.rows)].id

\* the rows replayed are the N rows of thread T with the highest ids, by
\* falling id: the reverse of the last N rows of the ascending unlimited replay
HighestN(N) ==
  LET asc == Select(replayed.thread, "ASC", Null) IN
  /\ Len(replayed.rows) = N
  /\ Descending(replayed.rows)
  /\ ReplayedIds \subseteq IdsOf(replayed.thread)
  /\ \A x \in IdsOf(replayed.thread) \ ReplayedIds : \A y \in ReplayedIds : x < y
  /\ replayed.rows = Reverse(SubSeq(asc, Len(asc) - N + 1, Len(asc)))

\* C10 as claimed: a replay of thread T with order desc and limit N, T holding
\* M > N rows, returns exactly the N rows with the highest ids in strictly
\* descending id order.
C10_DescLimit_Claimed ==
  (Replayed /\ DescAsked /\ LimitAsked /\ StoredM > AskedN) => HighestN(AskedN)

\* C10 amended: the same for a limit N of at most 5000.
C10_DescLimit ==
  (Replayed /\ DescAsked /\ LimitAsked /\ StoredM > AskedN /\ AskedN <= LIMIT_MAX)
  => HighestN(AskedN)

\* thread t1 was replayed descending with limit 2 while it held more rows,
\* the newest of them written after start-up
C10_Witness ==
  /\ Replayed /\ DescAsked /\ LimitAsked /\ AskedN = 2
  /\ replayed.thread = "t1"
  /\ StoredM > 2
  /\ Len(replayed.rows) = 2
  /\ replayed.rows[1].id > LIMIT_MAX + StoredExtra

(***************************************************************************)
(* SpecUpload: upload tokens are minted, written to and read while the     *)
(* clock passes their expiry and the sweep of expired tokens runs.         *)
(***************************************************************************)
MaxUploads == 1
MaxAwaiting == 2
MaxSaves == 2
UploadTickSec == 315360001

\* body.mime of POST /uploads/new, and the content-type header of a PUT
MintMimes == {Undef, Str("image/png")}
ContentTypes == {Null, Str(" "), Str("image/png"), Str("image/jpeg")}

\* the token of the path: a token minted so far, one never minted, or none
NeverMinted == <<9, 9>>
UpSegs == {randomTokenHex(k) : k \in 0..(uploadsMade - 1)} \cup {NeverMinted, <<>>}

UpNewBegin ==
  /\ Cardinality(awaiting) < MaxAwaiting
  /\ \E req \in {TokenReq, NoReq} : UploadNewBegin(req)
UpNewFinish ==
  \E a \in awaiting, mimeRaw \in MintMimes, bytes \in {0, 1, UPLOAD_MAX_BYTES + 1},
     dbOk \in BOOLEAN :
    UploadNewFinish(a, mimeRaw, bytes, dbOk, MaxUploads)
UpPutBegin ==
  /\ Cardinality(awaiting) < MaxAwaiting
  /\ \E req \in {TokenReq, NoReq}, seg \in UpSegs, ctRaw \in ContentTypes :
       UploadPutBegin(req, seg, ctRaw)
UpPutFinish ==
  \E a \in awaiting, size \in {1, UPLOAD_MAX_BYTES + 1}, writeOk \in BOOLEAN :
    UploadPutFinish(a, size, writeOk, TRUE, MaxSaves)
UpReadBegin ==
  /\ Cardinality(awaiting) < MaxAwaiting
  /\ \E req \in {TokenReq, NoReq}, seg \in UpSegs : UploadReadBegin(req, seg)
UpReadFinish == \E a \in awaiting : UploadReadFinish(a)
UpPrune == pruneExpiredUploadTokens
UpTick == Tick(UploadTickSec)

NextUpload ==
  \/ UpNewBegin
  \/ UpNewFinish
  \/ UpPutBegin
  \/ UpPutFinish
  \/ UpReadBegin
  \/ UpReadFinish
  \/ UpPrune
  \/ UpTick

SpecUpload == Init /\ [][NextUpload]_vars

\* the request a declares the MIME type of its token as its content type
DeclaresMime(a) == a.ct # Null /\ trim(a.ct.s) = a.rec.mime

\* the request a declares no content type: the header is missing or blank
DeclaresNothing(a) == a.ct = Null \/ trim(a.ct.s) = ""

\* a step writes the blob of the suspended PUT request a
Writes(a) ==
  /\ a \in awaiting \ awaiting'
  /\ a.op = "put"
  /\ a.rec.path \in DOMAIN files'
  /\ files' = MapSet(files, a.rec.path, files'[a.rec.path])

\* C11 as claimed: a PUT is admitted to its write, and the blob is written,
\* only when the request's content type equals the MIME type declared when
\* the token was created.
C11_WriteOnlyOnMatch_Claimed ==
  [][/\ \A a \in awaiting' \ awaiting : a.op = "put" => DeclaresMime(a)
     /\ files' # files => \E a \in awaiting : Writes(a) /\ DeclaresMime(a)]_vars

\* C11: a PUT is admitted to its write, and the blob is written, only when
\* the request declares no content type or the MIME type declared when the
\* token was created; a request declaring another content type is answered
\* without being admitted, and nothing is written.
C11_WriteOnlyOnMatch ==
  [][/\ \A a \in awaiting' \ awaiting :
          a.op = "put" => DeclaresMime(a) \/ DeclaresNothing(a)
     /\ files' # files =>
          \E a \in awaiting : Writes(a) /\ (DeclaresMime(a) \/ DeclaresNothing(a))
     /\ (resp' # resp /\ resp'.body = "content-type mismatch") =>
          files' = files /\ awaiting' = awaiting /\ resp'.status = 400]_vars

\* a blob was written by a request declaring the token's MIME type, and a
\* request was answered "content-type mismatch"
C11_Witness ==
  /\ \E p \in DOMAIN files : files[p].ct = Str("image/png") /\ p.ext = "png"
  /\ resp.body = "content-type mismatch"

\* the response of each route to a token that never existed
AbsentStatus(path) == IF path = "PUT /uploads/:token" THEN 400 ELSE 404
AbsentBody(path) == IF path = "PUT /uploads/:token" THEN "invalid upload token" ELSE "Not found"

\* a request carrying the current secret names the expired token t and the
\* route answers it (and deletes the row)
AnswersExpired(t) ==
  /\ nowSec > uploadTokens[t].expires_at
  /\ step'.h = "fetch"
  /\ resp'.seg = t
  /\ resp'.path \in {"PUT /uploads/:token", "GET /u/:token"}
  /\ t \notin DOMAIN uploadTokens'

\* C12: a read or a write naming an expired token is answered as one naming a
\* token that never existed, and writes no blob.
C12_ExpiredAsAbsent ==
  [][\A t \in DOMAIN uploadTokens :
       AnswersExpired(t) =>
         /\ resp'.status = AbsentStatus(resp'.path)
         /\ resp'.body = AbsentBody(resp'.path)
         /\ files' = files
         /\ awaiting' = awaiting]_vars

(***************************************************************************)
(* SpecExchange: one client and one anchor connect, subscribe to t1 and    *)
(* exchange envelopes of t1, and the thread is replayed.  The history      *)
(* variable trace records what the relay received and sent.                *)
(***************************************************************************)
MaxExRows == 2
MaxExInflight == 2

ExSock == {1, NClients + 1}

\* the texts of the client and of the anchor: 1 carries t1 as top-level
\* threadId, 3 is a result naming thread t1
ClientTexts == {1}
AnchorTexts == {3}

\* dlv after the sends of the effects fx, all carrying envelope n of recv
RECURSIVE Delivered(_, _, _)
Delivered(dlv, fx, n) ==
  IF fx = <<>> THEN dlv
  ELSE Delivered(IF Head(fx).op = "send" /\ Head(fx).ctl = ""
                 THEN [dlv EXCEPT ![Head(fx).to] = Append(@, n)]
                 ELSE dlv,
                 Tail(fx), n)

ExUpgrade ==
  \/ \E s \in ExSock \cap Clients : Upgrade(s, "/ws/client", "", TokenReq)
  \/ \E s \in ExSock \cap Anchors : Upgrade(s, "/ws/anchor", "", TokenReq)
ExOpen == \E s \in ExSock : Open(s)
ExClose == \E s \in ExSock : Close(s)
ExSubscribe ==
  /\ \E s \in ExSock : Orbit(s, 10)
  /\ UNCHANGED trace
ExRelayClient ==
  \E s \in ExSock, text \in ClientTexts :
    /\ RelayClient(s, text, TRUE, MaxExRows)
    /\ trace' = [recv |-> Append(trace.recv, [from |-> s, text |-> text]),
                 pend |-> trace.pend,
                 dlv |-> Delivered(trace.dlv, effects', Len(trace.recv) + 1)]
ExRelayAnchor ==
  \E s \in ExSock, text \in AnchorTexts :
    /\ RelayAnchor(s, text, MaxExInflight)
    /\ trace' = [recv |-> Append(trace.recv, [from |-> s, text |-> text]),
                 pend |-> Append(trace.pend, Len(trace.recv) + 1),
                 dlv |-> trace.dlv]
ExRelayResume ==
  \E i \in 1..MaxExInflight, titled \in BOOLEAN :
    /\ RelayResume(i, titled, TRUE, MaxExRows)
    /\ trace' = [recv |-> trace.recv,
                 pend |-> Remove(trace.pend, i),
                 dlv |-> Delivered(trace.dlv, effects', trace.pend[i])]
ExReplay == \E orderRaw \in {Null, Str("asc")} : Replay(TokenReq, "t1", Null, orderRaw, TRUE)

NextExchange ==
  \/ ExUpgrade
  \/ ExOpen
  \/ ExClose
  \/ ExSubscribe
  \/ ExRelayClient
  \/ ExRelayAnchor
  \/ ExRelayResume
  \/ ExReplay

SpecExchange == Init /\ [][NextExchange]_vars

\* client c and anchor a are both subscribed to thread t1
BothSubscribed(c, a) ==
  /\ c \in MapGet(threadToClients, "t1", {})
  /\ a \in MapGet(threadToAnchors, "t1", {})

\* the envelopes logged for thread T, in the order of their ids
LoggedFor(T) == [i \in DOMAIN Select(T, "ASC", Null) |->
                   Select(T, "ASC", Null)[i].payload.message]

\* the step is the relay of envelope 1 sent by client c
ClientSends(c) ==
  /\ trace'.recv = Append(trace.recv, [from |-> c, text |-> 1])
  /\ trace'.pend = trace.pend

\* the step completes the relay of an envelope sent by anchor a
AnchorReplyDone(a, n) ==
  /\ n \in DOMAIN trace.recv
  /\ trace.recv[n].from = a
  /\ \E i \in DOMAIN trace.pend : trace.pend[i] = n /\ trace'.pend = Remove(trace.pend, i)

\* the socket x is sent envelope n of recv by the step
SentTo(x, n) == trace'.dlv[x] = Append(trace.dlv[x], n)

\* the step answers the ascending replay of t1
AscReplayOfT1 ==
  /\ step'.h = "replay"
  /\ resp'.status = 200
  /\ replayed'.thread = "t1"
  /\ events' = events

\* C13: with client c and anchor a both subscribed to t1 and nothing logged
\* for t1, the client's envelope carrying t1 as top-level threadId is sent to
\* a and the log then holds exactly that one record for t1; when the log
\* holds that one record, the anchor's reply carrying t1 is sent to c and the
\* log then holds exactly the two records; and the ascending replay of t1
\* returns the records of t1 in the order they were sent.
C13_Exchange ==
  [][\A c \in ExSock \cap Clients, a \in ExSock \cap Anchors :
       /\ (BothSubscribed(c, a) /\ ClientSends(c) /\ LoggedFor("t1") = <<>>) =>
            /\ SentTo(a, Len(trace'.recv))
            /\ LoggedFor("t1")' = <<1>>
       /\ \A n \in DOMAIN trace.recv :
            (BothSubscribed(c, a) /\ AnchorReplyDone(a, n) /\ LoggedFor("t1") = <<1>>) =>
              /\ SentTo(c, n)
              /\ LoggedFor("t1")' = <<1, trace.recv[n].text>>
       /\ AscReplayOfT1 =>
            [i \in DOMAIN replayed'.rows |-> replayed'.rows[i].payload.message]
              = LoggedFor("t1")]_vars

\* the client's envelope reached the anchor, the anchor's reply reached the
\* client, and the replay of t1 returned the two in that order
C13_Witness ==
  /\ trace.recv = <<[from |-> 1, text |-> 1], [from |-> NClients + 1, text |-> 3]>>
  /\ trace.dlv[NClients + 1] = <<1>>
  /\ trace.dlv[1] = <<2>>
  /\ step.h = "replay"
  /\ Len(replayed.rows) = 2
  /\ replayed.rows[1].payload.message = 1
  /\ replayed.rows[2].payload.message = 3

\* envelope m of recv was received before envelope n from the same socket
SameSender(m, n) == trace.recv[m].from = trace.recv[n].from

\* C14: every socket is sent the envelopes of one sender in the order the
\* relay received them, and no two relay calls for envelopes of one sender
\* are in progress at once.
C14_PerSenderOrder ==
  /\ \A x \in Sock : \A i, j \in DOMAIN trace.dlv[x] :
       (i < j /\ SameSender(trace.dlv[x][i], trace.dlv[x][j])) =>
         trace.dlv[x][i] < trace.dlv[x][j]
  /\ \A i, j \in DOMAIN trace.pend :
       i # j => ~SameSender(trace.pend[i], trace.pend[j])

(***************************************************************************)
(* SpecSupervise: the anchor child is started and stopped over the admin   *)
(* routes, exits, and has its exited callback run.                         *)
(***************************************************************************)
MaxSpawns == 3

SupAutostart == \E spawnOk \in BOOLEAN : Autostart(spawnOk)
SupStart ==
  \E req \in {TokenReq, NoReq}, spawnOk \in BOOLEAN : StartAnchor(req, spawnOk, MaxSpawns)
SupStop == \E req \in {TokenReq, NoReq}, killOk \in BOOLEAN : StopAnchor(req, killOk)
SupExit == \E p \in 1..MaxSpawns : ChildExit(p)
SupExited == \E p \in 1..MaxSpawns : ExitedThen(p)
SupStatus == \E req \in {TokenReq, NoReq} : AdminStatus(req)

NextSupervise ==
  \/ SupAutostart
  \/ SupStart
  \/ SupStop
  \/ SupExit
  \/ SupExited
  \/ SupStatus

SpecSupervise == Init /\ [][NextSupervise]_vars

\* the step is a call of startAnchor(), at start-up or through the admin
\* route, that returned ok
Started ==
  \/ step'.h = "autostart"
  \/ /\ step'.h = "fetch"
     /\ resp'.path = "/admin/anchor/start"
     /\ resp'.status = 200

\* the step is the exit of the supervised child
SupervisedExits ==
  /\ isAnchorRunning
  /\ procs'[anchorProc].exitCode # Null

\* C21: when the supervised child exits isAnchorRunning() becomes false; it
\* becomes true again only by a call of startAnchor(); and a child is
\* spawned only by a call of startAnchor().
C21_NoAutoRestart ==
  [][/\ SupervisedExits => ~isAnchorRunning'
     /\ (~isAnchorRunning /\ isAnchorRunning') => Started
     /\ Len(procs') > Len(procs) => Started]_vars

\* the supervised child has exited by itself, its exited callback has run,
\* and no other child was spawned
C21_Witness ==
  /\ Len(procs) = 1
  /\ procs[1].exitCode # Null
  /\ ~procs[1].signalled
  /\ procs[1].thenRan
  /\ ~isAnchorRunning

\* the step is a call of startAnchor() through the admin route
StartCalled ==
  /\ step'.h = "fetch"
  /\ resp'.path = "/admin/anchor/start"
  /\ resp'.status # 401

\* C20: startAnchor() called while isAnchorRunning() holds spawns no child,
\* returns ok and leaves the supervised child as it was.
C20_StartIdempotent ==
  [][(StartCalled /\ isAnchorRunning) =>
       /\ procs' = procs
       /\ anchorProc' = anchorProc
       /\ resp'.status = 200
       /\ resp'.body = "ok"]_vars

\* start was called on a running child, at a moment when a spawn would have
\* failed, and answered ok
C20_Witness ==
  /\ resp.path = "/admin/anchor/start"
  /\ resp.status = 200
  /\ Len(procs) = 1
  /\ anchorProc = 1
  /\ procs[1].exitCode = Null
  /\ step = Step("fetch", "", 0, FALSE)

(***************************************************************************)
(* SpecRestart: sockets connect, the token is rotated with the config file *)
(* writable or not, and the relay restarts.                                *)
(***************************************************************************)
RstUpgrade ==
  \/ \E s \in RotSock \cap Clients, req \in AuthReqs : Upgrade(s, "/ws/client", "", req)
  \/ \E s \in RotSock \cap Anchors, req \in AuthReqs : Upgrade(s, "/ws/anchor", "", req)
RstOpen == \E s \in RotSock : Open(s)
RstClose == \E s \in RotSock : Close(s)
\* CONFIG_JSON_PATH is set and the file is read and rewritten, or it is not
RstRotate == \E req \in AuthReqs, readable \in BOOLEAN : Rotate(req, readable)
RstRestart == Restart

NextRestart ==
  \/ RstUpgrade
  \/ RstOpen
  \/ RstClose
  \/ RstRotate
  \/ RstRestart

SpecRestart == Init /\ [][NextRestart]_vars

\* C19: once the secret has been rotated, the config file holds the rotated
\* secret, and the relay, restarted or not, holds the rotated secret.
C19_RotationPersisted ==
  tokensMade > 1 =>
    /\ config = randomTokenHex(tokensMade - 1)
    /\ AUTH_TOKEN = randomTokenHex(tokensMade - 1)

(***************************************************************************)
(* SpecAdmin: every guarded REST route is called with and without the      *)
(* current secret, and the two unguarded routes are called, while the      *)
(* secret is rotated.                                                      *)
(***************************************************************************)
\* the credentials of a request: the current secret, none, a wrong bearer
\* token, and the first secret (an old one once the secret is rotated)
AdminReqs ==
  {TokenReq, NoReq, [auth |-> Bearer(<<0>>), token |-> NoParam],
   [auth |-> NoHeader, token |-> Param(randomTokenHex(0))]}

AdmStatus == \E req \in AdminReqs : AdminStatus(req)
AdmLogs == \E req \in AdminReqs : RestCall(req)
AdmStart == \E req \in AdminReqs : StartAnchor(req, TRUE, 1)
AdmStop == \E req \in AdminReqs : StopAnchor(req, TRUE)
AdmMint == \E req \in AdminReqs : PairNew(req)
AdmReplay == \E req \in AdminReqs : Replay(req, "admin", Null, Null, TRUE)
AdmUploadNew == awaiting = {} /\ \E req \in AdminReqs : UploadNewBegin(req)
AdmUploadNewFinish ==
  \E a \in awaiting : UploadNewFinish(a, Str("image/png"), 1, TRUE, MaxUploads)
AdmPut ==
  /\ awaiting = {}
  /\ \E req \in AdminReqs, seg \in UpSegs \ {<<>>} : UploadPutBegin(req, seg, Null)
AdmPutFinish == \E a \in awaiting : UploadPutFinish(a, 1, TRUE, TRUE, 1)
AdmRotate == \E req \in AdminReqs : Rotate(req, TRUE)
AdmConsume == \E body \in {b \in {"AB2", "ZZ9"} : Known(b)} : ConsumeBegin(1, body)
AdmConsumeFinish == ConsumeFinish(1)
AdmRead ==
  /\ awaiting = {}
  /\ \E req \in {NoReq}, seg \in UpSegs \ {<<>>} : UploadReadBegin(req, seg)
AdmReadFinish == \E a \in awaiting : UploadReadFinish(a)

NextAdmin ==
  \/ AdmStatus
  \/ AdmLogs
  \/ AdmStart
  \/ AdmStop
  \/ AdmMint
  \/ AdmReplay
  \/ AdmUploadNew
  \/ AdmUploadNewFinish
  \/ AdmPut
  \/ AdmPutFinish
  \/ AdmRotate
  \/ AdmConsume
  \/ AdmConsumeFinish
  \/ AdmRead
  \/ AdmReadFinish

SpecAdmin == Init /\ [][NextAdmin]_vars

\* the routes of the privileged operations
Privileged ==
  {"/admin/status", "/admin/logs", "/admin/anchor/start", "/admin/anchor/stop",
   "/admin/pair/new", "/threads/:id/events", "/uploads/new", "PUT /uploads/:token",
   "/admin/token/rotate"}

\* the state of the relay: all but the record of the last step and response
RelayState ==
  <<AUTH_TOKEN, tokensMade, config, ws, regVars, inflight, events, seq, pairCodes, codesMade,
    minted, consume, uploadTokens, files, awaiting, uploadsMade, anchorProc, procs, now>>

\* the step answers a request that has just arrived on a privileged route
\* and carries the current secret neither as bearer nor as token parameter
DeniedArrival ==
  /\ resp' # resp
  /\ resp'.path \in Privileged
  /\ awaiting' = awaiting
  /\ AUTH_TOKEN \notin Carried(resp'.req)

\* the step answers the /pair/consume request r for a stored, unexpired code
ConsumesStored(r) ==
  /\ consume[r].pc = "json"
  /\ consume'[r].pc = "done"
  /\ CodeOf(r) \in DOMAIN pairCodes
  /\ ~(DateNow > pairCodes[CodeOf(r)].expiresAt)

\* the step answers the GET /u/:token request a for a stored blob
ReadsStored(a) ==
  /\ a \in awaiting \ awaiting'
  /\ a.op = "read"
  /\ a.rec.path \in DOMAIN files

\* C16: a request on a privileged route that does not carry the current
\* secret is answered 401 and changes no relay state; /pair/consume for a
\* stored code and GET /u/:token for a stored blob succeed on the code or the
\* token alone, whatever credentials the request carries.
C16_SecretGuardsPrivileged ==
  [][/\ DeniedArrival => resp'.status = 401 /\ RelayState' = RelayState
     /\ \A r \in DOMAIN consume :
          ConsumesStored(r) =>
            consume'[r].status = 200 /\ consume'[r].token = pairCodes[CodeOf(r)].token
     /\ \A a \in awaiting :
          ReadsStored(a) => resp'.status = 200 /\ resp'.req = a.req]_vars

\* with a child running, a blob stored and a pairing code consumed without
\* any secret, a stop request carrying an old secret has been refused
C16_Witness ==
  /\ resp.path = "/admin/anchor/stop"
  /\ resp.status = 401
  /\ tokensMade > 1
  /\ Carried(resp.req) = {randomTokenHex(0)}
  /\ isAnchorRunning
  /\ Won(1)
  /\ files # EmptyMap

(***************************************************************************)
(* The registry and the control frames (under SpecRegistry)                *)
(***************************************************************************)
\* the stable ids an anchor supplies at connect time: none, or "mac1"
RegIds == {"", "mac1"}

\* socket 1 connects as a client, the last socket as an anchor, the others
\* as either
RegPaths(s) ==
  IF s = 1 THEN {"/ws/client"}
  ELSE IF s = NClients + NAnchors THEN {"/ws/anchor"}
  ELSE {"/ws/client", "/ws/anchor"}

\* the control frames of the model: a ping carrying t1, subscriptions to t1
\* and t2, a peer-list request, a subscription with a number as thread id
ControlTexts == {9, 10, 11, 12, 13}

\* the frame the message handler was last called with, and its socket
Received(s, text) == [NoTrace EXCEPT !.recv = <<[from |-> s, text |-> text]>>]

RegUpgrade ==
  \E s \in Sock, anchorId \in RegIds :
    \E path \in RegPaths(s) : Upgrade(s, path, anchorId, TokenReq)
RegOpen == \E s \in Sock : Open(s)
RegClose == \E s \in Sock : Close(s)
RegPing ==
  \E s \in Sock, text \in ControlTexts :
    /\ Ping(s, text)
    /\ trace' = Received(s, text)
RegOrbit ==
  \E s \in Sock, text \in ControlTexts \ {13} :
    /\ Orbit(s, text)
    /\ trace' = Received(s, text)
RegHello ==
  \E s \in Sock :
    /\ AnchorHello(s, 14)
    /\ trace' = Received(s, 14)
RegRelay ==
  \E s \in Sock, text \in ControlTexts \cup {4} :
    /\ RelayClient(s, text, TRUE, MaxEvents)
    /\ trace' = Received(s, text)

NextRegistry ==
  \/ RegUpgrade
  \/ RegOpen
  \/ RegClose
  \/ RegPing
  \/ RegOrbit
  \/ RegHello
  \/ RegRelay

SpecRegistry == Init /\ [][NextRegistry]_vars

\* C22: no two registered anchor sockets that the relay has not closed
\* carry the same identifier in anchorMeta.
C22_UniquePeerIds ==
  \A a, b \in DOMAIN anchorMeta :
    (a # b /\ ws[a].state = "open" /\ ws[b].state = "open")
    => anchorMeta[a].id # anchorMeta[b].id

\* the threads in the subscription set of socket s, in either role map
SubsOf(s) ==
  IF s \in DOMAIN clientSockets THEN clientSockets[s]
  ELSE IF s \in DOMAIN anchorSockets THEN anchorSockets[s] ELSE {}

\* the step is the message handler called with a subscription to thread T
\* sent by socket s
SubscribeStep(s, T) ==
  /\ step'.h = "orbit"
  /\ trace'.recv # <<>>
  /\ trace'.recv[1].from = s
  /\ parseJsonMessage(trace'.recv[1].text).type = Str("orbit.subscribe")
  /\ parseJsonMessage(trace'.recv[1].text).threadId = Str(T)

\* C23: a subscription to thread T from a socket already subscribed to T
\* leaves the five registry maps unchanged and sends nothing.
C23_SubscribeIdempotent ==
  [][\A s \in Sock, T \in {"t1", "t2"} :
       (SubscribeStep(s, T) /\ T \in SubsOf(s))
       => (regVars' = regVars /\ effects' = <<>>)]_vars

\* a client subscribed to t1 has sent a subscription to t1 again while an
\* anchor was subscribed to t1, and nothing was sent
C23_Witness ==
  /\ step.h = "orbit"
  /\ trace.recv # <<>>
  /\ trace.recv[1].text = 10
  /\ trace.recv[1].from \in DOMAIN clientSockets
  /\ "t1" \in clientSockets[trace.recv[1].from]
  /\ MapGet(threadToAnchors, "t1", {}) # {}
  /\ effects = <<>>

\* a reverse index holds socket s under thread T exactly when the role map
\* holds T in the subscription set of s
Mirrors(idx, socks) ==
  /\ \A T \in DOMAIN idx : \A s \in idx[T] : s \in DOMAIN socks /\ T \in socks[s]
  /\ \A s \in DOMAIN socks : \A T \in socks[s] : T \in DOMAIN idx /\ s \in idx[T]

\* socket s is in a role map or in a subscriber set of a reverse index
InRegistry(s) ==
  \/ s \in DOMAIN clientSockets \cup DOMAIN anchorSockets
  \/ \E T \in DOMAIN threadToClients : s \in threadToClients[T]
  \/ \E T \in DOMAIN threadToAnchors : s \in threadToAnchors[T]

\* the step is the close callback of socket s
CloseStep(s) == ws[s].state \in {"open", "closing"} /\ ws'[s].state = "none"

\* C24: the close callback of a socket leaves it in neither role map and in
\* no subscriber set of the reverse indexes, in that one step; between the
\* handlers the reverse indexes mirror the role maps, and a socket with no
\* connection is nowhere in the registry.
C24_CloseRemovesAll ==
  /\ [][\A s \in Sock : CloseStep(s) => ~InRegistry(s)']_vars
  /\ [](/\ Mirrors(threadToClients, clientSockets)
        /\ Mirrors(threadToAnchors, anchorSockets)
        /\ \A s \in Sock : ws[s].state \in {"none", "upgraded"} => ~InRegistry(s))

\* a socket that had just subscribed to t2 was closed, and the reverse index
\* of one role still holds subscribers of t1 and of t2
C24_Witness ==
  /\ step.h = "close"
  /\ trace.recv # <<>>
  /\ trace.recv[1].text = 11
  /\ ws[trace.recv[1].from].state = "none"
  /\ \/ MapGet(threadToClients, "t2", {}) # {} /\ MapGet(threadToClients, "t1", {}) # {}
     \/ MapGet(threadToAnchors, "t2", {}) # {} /\ MapGet(threadToAnchors, "t1", {}) # {}

\* the frame is a ping or has a type starting with "orbit."
IsControl(text) == IsPing(parseJsonMessage(text)) \/ IsOrbit(parseJsonMessage(text))

\* effect e forwards or logs the text of a frame
Carries(e) == e.op = "log" \/ (e.op = "send" /\ e.ctl = "")

\* the frame of the last message step and its sender
LastFrame == trace.recv[1]

\* C26: a ping or orbit.* frame is never sent on to a socket and never put in
\* the event log; the step handling one forwards and logs nothing; a ping is
\* answered by one pong, and a peer-list request by one list, to the socket
\* that sent it and to no other.
C26_ControlStaysLocal ==
  /\ \A i \in DOMAIN effects : Carries(effects[i]) => ~IsControl(effects[i].text)
  /\ \A i \in DOMAIN events : ~IsControl(events[i].payload.message)
  /\ step.h \in {"ping", "orbit"} => \A i \in DOMAIN effects : ~Carries(effects[i])
  /\ step.h = "ping" => effects = <<SendCtl(LastFrame.from, "pong", "")>>
  /\ (step.h = "orbit"
        /\ parseJsonMessage(LastFrame.text).type = Str("orbit.list-anchors"))
     => effects = <<SendCtl(LastFrame.from, "orbit.anchors", listAnchors)>>

\* a client's ping carrying t1 was answered while an anchor was subscribed
\* to t1 and another socket was registered
C26_Witness ==
  /\ step.h = "ping"
  /\ LastFrame.text = 9
  /\ LastFrame.from \in DOMAIN clientSockets
  /\ MapGet(threadToAnchors, "t1", {}) # {}
  /\ Cardinality(DOMAIN clientSockets \cup DOMAIN anchorSockets) = NClients + NAnchors

\* the anchor sockets whose subscription set holds thread T
AnchorsOn(T) == {a \in DOMAIN anchorSockets : T \in anchorSockets[a]}

\* the effects fx are one send of the control message ctl with arg to each
\* socket of S and nothing else
OneEach(fx, S, ctl, arg) ==
  /\ Len(fx) = Cardinality(S)
  /\ \A x \in S : \E i \in DOMAIN fx : fx[i] = SendCtl(x, ctl, arg)

\* C27: when a client socket not yet subscribed to thread T subscribes to T,
\* each anchor socket subscribed to T at that moment is sent one
\* orbit.client-subscribed for T, and nothing else is sent.
C27_ClientWatching ==
  [][\A s \in Sock, T \in {"t1", "t2"} :
       (SubscribeStep(s, T) /\ s \in DOMAIN clientSockets /\ T \notin clientSockets[s])
       => OneEach(effects', AnchorsOn(T), "orbit.client-subscribed", T)]_vars

\* a client has newly subscribed to t1 while one of two registered anchors
\* was subscribed to t1, and one signal was sent
C27_Witness ==
  /\ step.h = "orbit"
  /\ trace.recv # <<>>
  /\ LastFrame.text = 10
  /\ LastFrame.from \in DOMAIN clientSockets
  /\ Cardinality(DOMAIN anchorSockets) = 2
  /\ Cardinality(AnchorsOn("t1")) = 1
  /\ Len(effects) = 1

\* the list of metas holds exactly the metas of the sockets of S
ListsExactly(list, S) ==
  /\ Len(list) = Cardinality(S)
  /\ \A x \in S : \E i \in DOMAIN list : list[i] = anchorMeta'[x]

\* C28: the close callback of a registered anchor socket sends each
\* registered client socket one orbit.anchor-disconnected carrying the
\* identifier of that socket's meta and nothing else, and takes the meta out
\* of anchorMeta, which holds the listed peers: the metas of the anchor
\* sockets still registered.
C28_PeerRemoved ==
  /\ [][\A s \in Sock :
          (CloseStep(s) /\ s \in DOMAIN anchorSockets)
          => /\ OneEach(effects', DOMAIN clientSockets, "orbit.anchor-disconnected",
                        anchorMeta[s].id)
             /\ s \notin DOMAIN anchorMeta'
             /\ ListsExactly(listAnchors', DOMAIN anchorSockets \ {s})]_vars
  /\ [](DOMAIN anchorMeta = DOMAIN anchorSockets)

\* the anchor with the stable id "mac1" has closed while two clients were
\* registered, each was told, and no anchor is listed any more
C28_Witness ==
  /\ step.h = "close"
  /\ Cardinality(DOMAIN clientSockets) = 2
  /\ OneEach(effects, DOMAIN clientSockets, "orbit.anchor-disconnected", "mac1")
  /\ listAnchors = <<>>

(***************************************************************************)
(* Fan-out of an anchor's envelope (under SpecFanout)                      *)
(***************************************************************************)
MaxFanRows == 1
MaxFanInflight == 1

\* the last socket connects as an anchor, the others as clients
FanPath(s) == IF s = NClients + NAnchors THEN "/ws/anchor" ELSE "/ws/client"

\* the client sockets whose subscription set holds thread T
ClientsOn(T) == {c \in DOMAIN clientSockets : T \in clientSockets[c]}

\* the sockets send() is called on by the effects fx
TargetsOf(fx) == {fx[i].to : i \in {j \in DOMAIN fx : fx[j].op = "send"}}

FanUpgrade == \E s \in Sock : Upgrade(s, FanPath(s), "", TokenReq)
FanOpen == \E s \in Sock : Open(s)
FanClose == \E s \in Sock : Close(s)
FanSubscribe ==
  /\ \E s \in Sock, text \in {10, 11} : FanPath(s) = "/ws/client" /\ Orbit(s, text)
  /\ UNCHANGED trace
\* the anchor's envelope 1 carries t1; pend keeps its sender and the clients
\* subscribed to t1 when it arrived
FanRelayAnchor ==
  \E s \in Sock :
    /\ RelayAnchor(s, 1, MaxFanInflight)
    /\ trace' = [trace EXCEPT !.pend =
                   Append(@, [from |-> s, was |-> ClientsOn(threadIdOf[1].s)])]
\* the writes to the sockets of bad throw; recv keeps the routed frame, dlv
\* what this step wrote to each socket
FanRelayResume ==
  \E i \in 1..MaxFanInflight, titled \in BOOLEAN :
    /\ RelayResume(i, titled, TRUE, MaxFanRows)
    /\ \E bad \in SUBSET TargetsOf(effects') :
         trace' = [recv |-> <<[from |-> trace.pend[i].from, text |-> inflight[i].text,
                               was |-> trace.pend[i].was, bad |-> bad]>>,
                   pend |-> Remove(trace.pend, i),
                   dlv |-> send(NoTrace.dlv, effects', bad)]

NextFanout ==
  \/ FanUpgrade
  \/ FanOpen
  \/ FanClose
  \/ FanSubscribe
  \/ FanRelayAnchor
  \/ FanRelayResume

SpecFanout == Init /\ [][NextFanout]_vars

\* the last step was relay() routing an anchor's envelope with a thread id
RoutedOn(T) == Routed("anchor") /\ threadIdOf[step.text] = Str(T)

\* C25: an anchor's envelope carrying thread id T is sent to exactly the
\* client sockets subscribed to T when relay() picks its targets, once each,
\* and to nobody when no client is subscribed to T.
C25_BridgeToSubscribers ==
  \A T \in {"t1", "t2"} :
    RoutedOn(T)
    => /\ Receivers = ClientsOn(T)
       /\ OncePerReceiver
       /\ ClientsOn(T) = {} => \A i \in DOMAIN effects : effects[i].op # "send"

\* an anchor's envelope for t1 was routed while one registered client was
\* subscribed to t1 and the other only to t2
C25_Witness ==
  /\ RoutedOn("t1")
  /\ Cardinality(DOMAIN clientSockets) = 2
  /\ Cardinality(ClientsOn("t1")) = 1
  /\ ClientsOn("t2") = DOMAIN clientSockets \ ClientsOn("t1")
  /\ Receivers = ClientsOn("t1")

\* C29: a client socket that was subscribed when an anchor's envelope arrived
\* and whose close callback ran during the await of relay() is sent nothing;
\* the clients still subscribed are each sent the envelope; the reverse
\* indexes mirror the role maps throughout.
C29_CloseDuringRouting ==
  /\ Mirrors(threadToClients, clientSockets)
  /\ Mirrors(threadToAnchors, anchorSockets)
  /\ \A T \in {"t1", "t2"} :
       RoutedOn(T)
       => /\ \A x \in Sock :
               ws[x].state = "none" => x \notin Receivers /\ trace.dlv[x] = <<>>
          /\ \A x \in LastFrame.was \cap ClientsOn(T) :
               /\ x \in Receivers
               /\ x \notin LastFrame.bad => trace.dlv[x] = <<step.text>>

\* of two clients subscribed to t1 when the envelope arrived, one was closed
\* during the await and the other was sent the envelope
C29_Witness ==
  /\ RoutedOn("t1")
  /\ Cardinality(LastFrame.was) = 2
  /\ \E x \in LastFrame.was : ws[x].state = "none" /\ trace.dlv[x] = <<>>
  /\ \E y \in LastFrame.was : trace.dlv[y] = <<step.text>>

\* C30: when writes to some targets of a routed envelope throw, each other
\* target is written the envelope exactly once, send() is called once per
\* target and not again, and nothing is sent to the sender.
C30_WriteFailureIsolated ==
  Routed("anchor")
  => /\ OncePerReceiver
     /\ \A x \in Receivers \ LastFrame.bad : trace.dlv[x] = <<step.text>>
     /\ \A x \in Sock \ (Receivers \ LastFrame.bad) : trace.dlv[x] = <<>>
     /\ LastFrame.from \notin Receivers

\* the write to the first of two targets threw and the second target was
\* written the envelope
C30_Witness ==
  /\ Routed("anchor")
  /\ Receivers = {1, 2}
  /\ LastFrame.bad = {1}
  /\ trace.dlv[2] = <<step.text>>

(***************************************************************************)
(* Thread-id extraction (under SpecExtract)                                *)
(***************************************************************************)
\* the texts of the generated envelopes
ExtTexts == (Len(Envelopes) - ExtCount + 1)..Len(Envelopes)

ExtUpgrade == \E s \in Clients : Upgrade(s, "/ws/client", "", TokenReq)
ExtOpen == \E s \in Clients : Open(s)
\* envelopes are routed while the log has room for a row
ExtRelay ==
  /\ seq < MaxEvents
  /\ \E s \in Clients, text \in ExtTexts : RelayClient(s, text, TRUE, MaxEvents)
  /\ UNCHANGED trace

NextExtract ==
  \/ ExtUpgrade
  \/ ExtOpen
  \/ ExtRelay

SpecExtract == Init /\ [][NextExtract]_vars

\* every field the extraction looks at, in the order top-level, params.*,
\* result.*, nested thread objects
AllCandidates(message) ==
  LET params == ObjOrNull(message.params)
      result == ObjOrNull(message.result)
  IN << message.threadId, message.thread_id,
        Get(params, "threadId"), Get(params, "thread_id"),
        Get(Get(params, "turn"), "threadId"), Get(Get(params, "turn"), "thread_id"),
        Get(Get(params, "item"), "threadId"), Get(Get(params, "item"), "thread_id"),
        Get(result, "threadId"), Get(result, "thread_id"),
        Get(Get(result, "turn"), "threadId"), Get(Get(result, "turn"), "thread_id"),
        Get(Get(result, "item"), "threadId"), Get(Get(result, "item"), "thread_id"),
        Get(Get(params, "thread"), "id"), Get(Get(Get(params, "turn"), "thread"), "id"),
        Get(Get(result, "thread"), "id"), Get(Get(Get(result, "turn"), "thread"), "id") >>

\* C31: the thread id relay() logs an envelope under is the first of its
\* fields, in the order top-level, params.*, result.*, nested thread
\* objects, that is a non-blank string or a number, and the envelope is not
\* logged when no field qualifies.
C31_FirstQualifying ==
  (Routed("client") /\ step.text \in ExtTexts)
  => LET id == FirstId(AllCandidates(parseJsonMessage(step.text))) IN
     IF id = Null THEN \A i \in DOMAIN effects : effects[i].op # "log"
     ELSE /\ \E i \in DOMAIN effects : effects[i] = Logged(step.text)
          /\ events # <<>>
          /\ events[Len(events)].thread_id = id.s

(***************************************************************************)
(* Stored and delivered envelopes (under SpecExchange)                     *)
(***************************************************************************)
\* the last step was relay() and it stored a row
StoredNow == step.h = "relay" /\ \E i \in DOMAIN effects : effects[i].op = "log"

\* C32: every send of a routing step that stored a row carries the envelope
\* of that row as it was received, not one changed by injectThreadTitles, and
\* a replay returns rows of the log with their payloads as stored.
C32_StoredIsDelivered ==
  /\ StoredNow
     => \A i \in DOMAIN effects :
          effects[i].op = "send"
          => /\ effects[i].text = events[Len(events)].payload.message
             /\ effects[i].form \in {"raw", "json"}
  /\ (step.h = "replay" /\ resp.status = 200)
     => \A i \in DOMAIN replayed.rows :
          \E j \in DOMAIN events : events[j] = replayed.rows[i]

(***************************************************************************)
(* The retention sweep (under SpecSweep)                                   *)
(***************************************************************************)
MaxSweepRows == 2

\* the values of ZANE_LOCAL_RETENTION_DAYS: below zero, zero, one day, and
\* the default
RetentionDays == {-1, 0, 1, DB_RETENTION_DAYS}

SweepUpgrade == \E s \in Clients : Upgrade(s, "/ws/client", "", TokenReq)
SweepOpen == \E s \in Clients : Open(s)
SweepRelay ==
  /\ \E s \in Clients : RelayClient(s, 1, TRUE, MaxSweepRows)
  /\ UNCHANGED trace
SweepTick == Tick(DaySec)
\* recv keeps the retention days of the sweep
SweepPrune ==
  \E days \in RetentionDays :
    /\ PruneOld(days)
    /\ trace' = [NoTrace EXCEPT !.recv = <<days>>]

NextSweep ==
  \/ SweepUpgrade
  \/ SweepOpen
  \/ SweepRelay
  \/ SweepTick
  \/ SweepPrune

SpecSweep == Init /\ [][NextSweep]_vars

\* the rows of a log, as a set
RowsOf(rows) == {rows[i] : i \in DOMAIN rows}

Presents(req, secret) ==
  \/ req.auth.scheme = "bearer" /\ req.auth.cred = secret
  \/ req.token.present /\ req.token.cred = secret

\* the step is a request to a route that answers 401 exactly when
\* authorised(req) is false
GuardedFetch ==
  /\ step'.h = "fetch"
  /\ resp'.path \in {"/admin/logs", "/ws", "/ws/client", "/ws/anchor"}

\* C34: a request is let through when it carries the current secret as its
\* bearer header value or as its token query parameter, and refused with 401
\* when it carries it as neither.
C34_SecretEitherWay ==
  [][GuardedFetch => (resp'.status # 401 <=> Presents(resp'.req, AUTH_TOKEN))]_vars

(***************************************************************************)
(* The two views of the registry (under SpecRegistry)                      *)
(***************************************************************************)
\* the role map socks and the reverse index idx of one role agree
ViewsAgree(role, socks, idx) ==
  /\ \A s \in Sock, T \in {"t1", "t2"} :
       (T \in DOMAIN idx /\ s \in idx[T]) <=> (s \in DOMAIN socks /\ T \in socks[s])
  /\ \A T \in DOMAIN idx :
       /\ idx[T] # {}
       /\ \A s \in idx[T] :
            s \in DOMAIN socks /\ ws[s].state \in {"open", "closing"} /\ ws[s].role = role
  /\ DOMAIN idx \subseteq {"t1", "t2"}

\* C35: for each role, socket s is in the reverse index under thread T
\* exactly when T is in the subscription set of s; every socket of a reverse
\* index is a registered socket of that role; no reverse index holds an
\* empty set; and anchorMeta has exactly the registered anchor sockets as
\* keys.
C35_RegistryViewsAgree ==
  /\ ViewsAgree("client", clientSockets, threadToClients)
  /\ ViewsAgree("anchor", anchorSockets, threadToAnchors)
  /\ DOMAIN anchorMeta = DOMAIN anchorSockets
  /\ \A s \in DOMAIN anchorSockets : ws[s].role = "anchor"
  /\ \A s \in DOMAIN clientSockets : ws[s].role = "client"

\* client 1, the only subscriber of t2, was closed after subscribing, while
\* another client stays subscribed to t1 and an anchor is registered
C35_Witness ==
  /\ step.h = "close"
  /\ trace.recv # <<>>
  /\ LastFrame = [from |-> 1, text |-> 11]
  /\ ws[1].state = "none"
  /\ DOMAIN threadToClients = {"t1"}
  /\ DOMAIN anchorMeta # {}

\* ---------------------------------------------------------------------------
\* Pairing codes and the current secret (SpecPair)
\* ---------------------------------------------------------------------------
\* the secret that was current when consume request r was answered
SecretAtAnswer(r) == randomTokenHex(consume[r].epoch - 1)

\* C36: every pairing code in the store holds the current shared secret, and
\* every consume request answered with 200 returned the secret that was current
\* when it was answered, whatever mints, consumes and rotations came before.
C36_CodesUnlockCurrent ==
  /\ \A c \in DOMAIN pairCodes : pairCodes[c].token = AUTH_TOKEN
  /\ \A r \in DOMAIN consume :
       (consume[r].pc = "done" /\ consume[r].status = 200)
         => consume[r].token = SecretAtAnswer(r)

\* a code minted after a rotation was consumed successfully
C36_Witness ==
  \E r \in DOMAIN consume :
    /\ consume[r].pc = "done"
    /\ consume[r].status = 200
    /\ consume[r].epoch > 1
    /\ consume[r].token = AUTH_TOKEN
    /\ AUTH_TOKEN # EnvToken

\* ---------------------------------------------------------------------------
\* Children of the supervisor (SpecSupervise)
\* ---------------------------------------------------------------------------
\* the spawned children that have not exited
Alive == {p \in DOMAIN procs : procs[p].exitCode = Null}

\* C37: at most one spawned bridge child is alive at any time, whatever
\* start(), stop() and child exits came before.
C37_OneChildAlive == Cardinality(Alive) <= 1

\* the child spawned last
LastSpawned == procs[Len(procs)]

\* C38: isAnchorRunning() is true exactly when the child spawned last has
\* neither exited nor been stopped; the exit notification of an earlier child
\* does not change that.
C38_RunningIsLastChild ==
  isAnchorRunning <=>
    (procs # <<>> /\ LastSpawned.exitCode = Null /\ ~LastSpawned.signalled)

\* ---------------------------------------------------------------------------
\* The secret of the running bridge (SpecAdmin)
\* ---------------------------------------------------------------------------
\* C39: whenever the supervised child is running, the secret put into its
\* environment at spawn is the relay's current shared secret, also after a
\* rotation.
C39_ChildHoldsCurrentSecret ==
  isAnchorRunning => procs[anchorProc].secret = AUTH_TOKEN

(***************************************************************************)
(* SpecOrder: one client and two anchors connect and subscribe, the        *)
(* anchors and the client send envelopes of t1, and the relay calls         *)
(* of the anchors' envelopes resume in any order.  Each entry of           *)
(* trace.recv also holds the ids of the rows logged for the envelope.      *)
(***************************************************************************)
MaxOrdRows == 4
MaxOrdInflight == 2

\* the ids of the rows the step inserts
NewIds == {events'[k].id : k \in (Len(events) + 1)..Len(events')}

OrdUpgrade ==
  \/ \E s \in Clients : Upgrade(s, "/ws/client", "", TokenReq)
  \/ \E s \in Anchors : Upgrade(s, "/ws/anchor", "", TokenReq)
OrdOpen == \E s \in Sock : Open(s)
OrdSubscribe ==
  /\ \E s \in Clients : Orbit(s, 10)
  /\ UNCHANGED trace
OrdRelayClient ==
  \E s \in Clients, text \in {1} :
    /\ RelayClient(s, text, TRUE, MaxOrdRows)
    /\ trace' = [recv |-> Append(trace.recv, [from |-> s, text |-> text, ids |-> NewIds]),
                 pend |-> trace.pend,
                 dlv |-> Delivered(trace.dlv, effects', Len(trace.recv) + 1)]
OrdRelayAnchor ==
  \E s \in Anchors, text \in {3} :
    /\ RelayAnchor(s, text, MaxOrdInflight)
    /\ trace' = [recv |-> Append(trace.recv, [from |-> s, text |-> text, ids |-> NewIds]),
                 pend |-> Append(trace.pend, Len(trace.recv) + 1),
                 dlv |-> trace.dlv]
OrdRelayResume ==
  \E i \in 1..MaxOrdInflight :
    /\ RelayResume(i, FALSE, TRUE, MaxOrdRows)
    /\ trace' = [recv |-> [trace.recv EXCEPT ![trace.pend[i]].ids = @ \cup NewIds],
                 pend |-> Remove(trace.pend, i),
                 dlv |-> Delivered(trace.dlv, effects', trace.pend[i])]

NextOrder ==
  \/ OrdUpgrade
  \/ OrdOpen
  \/ OrdSubscribe
  \/ OrdRelayClient
  \/ OrdRelayAnchor
  \/ OrdRelayResume

SpecOrder == Init /\ [][NextOrder]_vars

\* envelopes m and n of recv carry the same thread id
SameThread(m, n) ==
  /\ threadIdOf[trace.recv[m].text] # Null
  /\ threadIdOf[trace.recv[m].text] = threadIdOf[trace.recv[n].text]

\* C40: when a socket was sent envelope m before envelope n and both carry
\* the same thread id, every event-log row of m has a smaller id than every
\* event-log row of n, whichever sockets sent them.
C40_LogOrderIsDeliveryOrder ==
  \A x \in Sock : \A i, j \in DOMAIN trace.dlv[x] :
    (i < j /\ SameThread(trace.dlv[x][i], trace.dlv[x][j])) =>
      \A a \in trace.recv[trace.dlv[x][i]].ids, b \in trace.recv[trace.dlv[x][j]].ids : a < b

\* the client was sent two logged envelopes of t1 that came from the two
\* anchors, the one received later first
C40_Witness ==
  \E i, j \in DOMAIN trace.dlv[1] :
    /\ i < j
    /\ trace.dlv[1][i] > trace.dlv[1][j]
    /\ SameThread(trace.dlv[1][i], trace.dlv[1][j])
    /\ trace.recv[trace.dlv[1][i]].from # trace.recv[trace.dlv[1][j]].from
    /\ trace.recv[trace.dlv[1][i]].ids # {}
    /\ trace.recv[trace.dlv[1][j]].ids # {}

====
